---- MODULE Spec2Model ----
(***************************************************************************)
(* A model of the Kent catalog scraper: searchCourse, searchBySection,     *)
(* searchRMP (GraphQL variant and fuzzy-match variant) and getRmpReport.   *)
(* Strings the code takes apart are sequences of one-character strings;    *)
(* every HTTP request is a suspension point: one action issues it, another *)
(* delivers the response and runs the handler to its next await or return. *)
(***************************************************************************)
EXTENDS Integers, Sequences, FiniteSets, TLC

(***************************************************************************)
(* Characters and the string primitives of the language runtime.           *)
(***************************************************************************)
UpperLetters == <<"A","B","C","D","E","F","G","H","I","J","K","L","M",
                  "N","O","P","Q","R","S","T","U","V","W","X","Y","Z">>
LowerLetters == <<"a","b","c","d","e","f","g","h","i","j","k","l","m",
                  "n","o","p","q","r","s","t","u","v","w","x","y","z">>
DigitChars == {"0","1","2","3","4","5","6","7","8","9"}

Range(s) == {s[i] : i \in DOMAIN s}

IsUpper(c) == c \in Range(UpperLetters)
IsLower(c) == c \in Range(LowerLetters)
\* \s
SpaceChars == {" ", "\n", "\t"}
IsSpace(c) == c \in SpaceChars

PosIn(seq, c) == CHOOSE i \in DOMAIN seq : seq[i] = c

LowerChar(c) == IF IsUpper(c) THEN LowerLetters[PosIn(UpperLetters, c)] ELSE c
UpperChar(c) == IF IsLower(c) THEN UpperLetters[PosIn(LowerLetters, c)] ELSE c

\* String.prototype.toLowerCase / toUpperCase
toLowerCase(s) == [i \in DOMAIN s |-> LowerChar(s[i])]
toUpperCase(s) == [i \in DOMAIN s |-> UpperChar(s[i])]

\* the string without its first n characters / its first n characters
Drop(s, n) == IF n >= Len(s) THEN << >> ELSE SubSeq(s, n + 1, Len(s))
Take(s, n) == IF n <= 0 THEN << >> ELSE SubSeq(s, 1, IF n > Len(s) THEN Len(s) ELSE n)

\* whether sub occurs in s at 1-based position i
OccursAt(s, sub, i) ==
    /\ i >= 1
    /\ i + Len(sub) - 1 <= Len(s)
    /\ \A k \in 1..Len(sub) : s[i + k - 1] = sub[k]

\* String.prototype.includes
includes(s, sub) == \E i \in 1..(Len(s) + 1) : OccursAt(s, sub, i)

\* the least position >= from where sub occurs in s, 0 when there is none
IndexFrom(s, sub, from) ==
    LET hits == {i \in from..(Len(s) + 1) : OccursAt(s, sub, i)}
    IN  IF hits = {} THEN 0 ELSE CHOOSE i \in hits : \A j \in hits : i <= j

\* String.prototype.split with a non-empty string separator
RECURSIVE split(_, _)
split(s, sep) ==
    LET at == IndexFrom(s, sep, 1)
    IN  IF at = 0 THEN <<s>>
        ELSE <<Take(s, at - 1)>> \o split(Drop(s, at + Len(sep) - 1), sep)

\* String.prototype.trim
RECURSIVE trimStart(_)
trimStart(s) == IF s # << >> /\ IsSpace(s[1]) THEN trimStart(Tail(s)) ELSE s
RECURSIVE trimEnd(_)
trimEnd(s) ==
    IF s # << >> /\ IsSpace(s[Len(s)]) THEN trimEnd(Take(s, Len(s) - 1)) ELSE s
trim(s) == trimEnd(trimStart(s))

LetterChars == Range(UpperLetters) \cup Range(LowerLetters)
WordChars == LetterChars \cup DigitChars \cup {"_"}

\* the length of the longest prefix of s whose characters are all in S
RunLen(s, S) ==
    LET ok == {n \in 0..Len(s) : \A i \in 1..n : s[i] \in S}
    IN  CHOOSE n \in ok : \A m \in ok : m <= n

(***************************************************************************)
(* COURSE_IDENTIFIER = /^[a-zA-Z]{2,4}\d{3,5}(Q|E|W)*$/                    *)
(* The letters must be followed by a digit and the digits by a non-digit,  *)
(* so both repetitions take their whole run.                               *)
(***************************************************************************)
IsQEW(c) == c \in {"Q", "E", "W"}

\* the pattern without its end anchor
COURSE_IDENTIFIER_unanchored(s) ==
    LET nl == RunLen(s, LetterChars)
    IN  /\ nl \in 2..4
        /\ RunLen(Drop(s, nl), DigitChars) >= 3

COURSE_IDENTIFIER(s) ==
    LET nl   == RunLen(s, LetterChars)
        rest == Drop(s, nl)
        nd   == RunLen(rest, DigitChars)
        suf  == Drop(rest, nd)
    IN  /\ nl \in 2..4
        /\ nd \in 3..5
        /\ \A i \in DOMAIN suf : IsQEW(suf[i])

(***************************************************************************)
(* Values.  null and undefined are their own values; a thrown error makes  *)
(* the pending promise reject (outcome "threw").                           *)
(***************************************************************************)
NULL == [kind |-> "null"]
\* an absent array element or capture: no character string equals it
UNDEFINED == <<"undefined">>

\* 'There are no prerequisites for this course.'
DEFAULT_PREREQS == <<"T","h","e","r","e"," ","a","r","e"," ","n","o"," ","p","r","e","r","e","q","u","i","s","i","t","e","s"," ","f","o","r"," ","t","h","i","s"," ","c","o","u","r","s","e",".">>
\* 'There is no description provided for this course.'
DEFAULT_DESC == <<"T","h","e","r","e"," ","i","s"," ","n","o"," ","d","e","s","c","r","i","p","t","i","o","n"," ","p","r","o","v","i","d","e","d"," ","f","o","r"," ","t","h","i","s"," ","c","o","u","r","s","e",".">>
\* GradingTypeNames.GRADED
GRADED == <<"S","t","a","n","d","a","r","d"," ","L","e","t","t","e","r">>

\* SearchParts
SECTIONS == "SECTIONS"
PROFESSORS == "PROFESSORS"
DEFAULT_SEARCH_PARTS == {SECTIONS, PROFESSORS}

(***************************************************************************)
(* The course identifiers callers pass.                                    *)
(***************************************************************************)
\* 'CS1000'
ID_CS1000 == <<"C","S","1","0","0","0">>
\* 'cs1000'
ID_cs1000 == <<"c","s","1","0","0","0">>
\* 'ENGL1010W'
ID_ENGL1010W == <<"E","N","G","L","1","0","1","0","W">>
\* '1000CS'
ID_1000CS == <<"1","0","0","0","C","S">>
\* 'cs10'
ID_cs10 == <<"c","s","1","0">>
\* 'TOO5LONG12345'
ID_TOO5LONG12345 == <<"T","O","O","5","L","O","N","G","1","2","3","4","5">>
\* 'CS1000WW'
ID_CS1000WW == <<"C","S","1","0","0","0","W","W">>
\* 'CS1000QEW'
ID_CS1000QEW == <<"C","S","1","0","0","0","Q","E","W">>

Identifiers == {ID_CS1000, ID_cs1000, ID_ENGL1010W, ID_1000CS, ID_cs10}

\* identifier.split(/[0-9]/)[0].toUpperCase()
PrefixOf(identifier) ==
    toUpperCase(Take(identifier, RunLen(identifier, Range(identifier) \ DigitChars)))

\* identifier.split(/[a-zA-Z]{2,4}/)[1]: what lies between the first run of
\* two or more letters and the next one
NumberOf(identifier) ==
    LET rest == Drop(identifier, RunLen(identifier, LetterChars))
        runs == {i \in 1..Len(rest) :
                    /\ rest[i] \in LetterChars
                    /\ i < Len(rest)
                    /\ rest[i + 1] \in LetterChars}
    IN  IF runs = {} THEN rest
        ELSE Take(rest, (CHOOSE i \in runs : \A j \in runs : i <= j) - 1)

(***************************************************************************)
(* courses.json, the bundled course table (written by the mapping          *)
(* generator: name is subject + number, credits a number).                 *)
(***************************************************************************)
\* 'Letter'
GRADE_LETTER == <<"L","e","t","t","e","r">>
\* 'Basics.'
DESC_BASICS == <<"B","a","s","i","c","s",".">>

CourseMappings ==
    << [name |-> ID_CS1000, grading |-> GRADE_LETTER, credits |-> 3,
        prerequisites |-> DEFAULT_PREREQS, description |-> DESC_BASICS] >>

\* what Array.prototype.find gives when no entry satisfies the test
NoMapping == [kind |-> "undefined"]

\* Array.prototype.find: the first element satisfying the test, or undefined
FindMapping(identifier) ==
    LET hits == {i \in DOMAIN CourseMappings : CourseMappings[i].name = identifier}
    IN  IF hits = {} THEN NoMapping
        ELSE CourseMappings[CHOOSE i \in hits : \A j \in hits : i <= j]

\* Number.prototype.toString for a small non-negative integer
RECURSIVE NumToString(_)
NumToString(n) ==
    LET d == <<"0","1","2","3","4","5","6","7","8","9">>[(n % 10) + 1]
    IN  IF n < 10 THEN <<d>> ELSE NumToString(n \div 10) \o <<d>>

(***************************************************************************)
(* The catalog page: the text of its .nttitle and .ntdefault elements.     *)
(***************************************************************************)
\* ' - '
SEP_DASH == <<" ","-"," ">>
\* ' Prerequisite: '
SEP_PREREQ == <<" ","P","r","e","r","e","q","u","i","s","i","t","e",":"," ">>
\* 'Prerequisite: '
PREREQ_LABEL == <<"P","r","e","r","e","q","u","i","s","i","t","e",":"," ">>
\* 'None.'
NONE_DOT == <<"N","o","n","e",".">>
\* '0'
ZERO == <<"0">>

\* 'CS 1000 - Intro (KBS)'
TITLE_A == <<"C","S"," ","1","0","0","0"," ","-"," ","I","n","t","r","o"," ","(","K","B","S",")">>
\* '\nBasics. Prerequisite: None.\n3.000 Credit hours\n'
BODY_A == <<"\n","B","a","s","i","c","s","."," ","P","r","e","r","e","q","u","i","s","i","t","e",":"," ","N","o","n","e",".","\n","3",".","0","0","0"," ","C","r","e","d","i","t"," ","h","o","u","r","s","\n">>
\* 'ENGL 1010 - Writing'
TITLE_B == <<"E","N","G","L"," ","1","0","1","0"," ","-"," ","W","r","i","t","i","n","g">>
\* '\nEssays.\nPrerequisite: CS 1000.\n3.000 Credit hours\n'
BODY_B == <<"\n","E","s","s","a","y","s",".","\n","P","r","e","r","e","q","u","i","s","i","t","e",":"," ","C","S"," ","1","0","0","0",".","\n","3",".","0","0","0"," ","C","r","e","d","i","t"," ","h","o","u","r","s","\n">>
\* pages that name no prerequisite: 'None.' on a line of its own, nothing
\* after the label on a line of its own, nothing after the label in the
\* description line
\* '\nEssays.\nPrerequisite: None.\n3.000 Credit hours\n'
BODY_C == <<"\n","E","s","s","a","y","s",".","\n","P","r","e","r","e","q","u","i","s","i","t","e",":"," ","N","o","n","e",".","\n","3",".","0","0","0"," ","C","r","e","d","i","t"," ","h","o","u","r","s","\n">>
\* '\nEssays.\nPrerequisite: \n3.000 Credit hours\n'
BODY_D == <<"\n","E","s","s","a","y","s",".","\n","P","r","e","r","e","q","u","i","s","i","t","e",":"," ","\n","3",".","0","0","0"," ","C","r","e","d","i","t"," ","h","o","u","r","s","\n">>
\* '\nBasics. Prerequisite: \n3.000 Credit hours\n'
BODY_E == <<"\n","B","a","s","i","c","s","."," ","P","r","e","r","e","q","u","i","s","i","t","e",":"," ","\n","3",".","0","0","0"," ","C","r","e","d","i","t"," ","h","o","u","r","s","\n">>

PAGE_A == [kind |-> "page", nttitle |-> TITLE_A, ntdefault |-> BODY_A]
PAGE_C == [kind |-> "page", nttitle |-> TITLE_B, ntdefault |-> BODY_C]
PAGE_D == [kind |-> "page", nttitle |-> TITLE_B, ntdefault |-> BODY_D]
PAGE_E == [kind |-> "page", nttitle |-> TITLE_A, ntdefault |-> BODY_E]
PAGE_B == [kind |-> "page", nttitle |-> TITLE_B, ntdefault |-> BODY_B]
\* the catalog's answer for a course it does not list: neither element
PAGE_EMPTY == [kind |-> "page", nttitle |-> << >>, ntdefault |-> << >>]

\* String.prototype.split(/\n{1,}/)
RECURSIVE splitNewlines(_)
splitNewlines(s) ==
    LET at == IndexFrom(s, <<"\n">>, 1)
    IN  IF at = 0 THEN <<s>>
        ELSE LET after == Drop(s, at - 1)
             IN  <<Take(s, at - 1)>>
                     \o splitNewlines(Drop(after, RunLen(after, {"\n"})))

\* String.prototype.replace(search, by) with a string search: the first occurrence
replaceFirst(s, sub, by) ==
    LET at == IndexFrom(s, sub, 1)
    IN  IF at = 0 THEN s ELSE Take(s, at - 1) \o by \o Drop(s, at + Len(sub) - 1)

\* .replace(/\(\w+\)/g, "")
RECURSIVE removeParenWords(_)
removeParenWords(s) ==
    IF s = << >> THEN << >>
    ELSE LET n == RunLen(Tail(s), WordChars)
         IN  IF s[1] = "(" /\ n >= 1 /\ Len(s) >= n + 2 /\ s[n + 2] = ")"
             THEN removeParenWords(Drop(s, n + 2))
             ELSE <<s[1]>> \o removeParenWords(Tail(s))

\* .replace(/[a-zA-Z]+/g, "")
removeLetters(s) == SelectSeq(s, LAMBDA c : c \notin LetterChars)

\* the element of a JavaScript array at a 0-based index
At(arr, i) == IF i >= 0 /\ i < Len(arr) THEN arr[i + 1] ELSE UNDEFINED

\* x || fallback for a string or undefined x
OrElse(x, fallback) == IF x = UNDEFINED \/ x = << >> THEN fallback ELSE x

\* searchCourse, from cheerio.load(catalogData) to the prereqs default:
\* the fields of the course, or threw when a property of undefined is read
parseCatalog(page, now) ==
    LET titleRaw       == split(page.nttitle, SEP_DASH)
        classDataRaw   == splitNewlines(page.ntdefault)
        descriptionRaw == split(At(classDataRaw, 1), SEP_PREREQ)
        description    == OrElse(At(descriptionRaw, 0), DEFAULT_DESC)
        special        == OrElse(At(descriptionRaw, 1), << >>) # << >>
        prereqsRaw     == IF special THEN At(descriptionRaw, 1)
                          ELSE replaceFirst(At(classDataRaw, 2), PREREQ_LABEL, << >>)
        credits        == IF special
                          THEN trim(removeLetters(OrElse(At(classDataRaw, 2), ZERO)))
                          ELSE trim(removeLetters(OrElse(At(classDataRaw, 3), ZERO)))
        prereqs        == IF includes(prereqsRaw, NONE_DOT) THEN DEFAULT_PREREQS
                          ELSE prereqsRaw
    IN  IF At(titleRaw, 1) = UNDEFINED THEN [threw |-> TRUE]
        ELSE IF At(classDataRaw, 1) = UNDEFINED THEN [threw |-> TRUE]
        ELSE IF ~special /\ At(classDataRaw, 2) = UNDEFINED THEN [threw |-> TRUE]
        ELSE [threw |-> FALSE,
              name |-> trim(removeParenWords(At(titleRaw, 1))),
              grading |-> GRADED,
              credits |-> credits,
              prereqs |-> prereqs,
              lastDataMarker |-> now,
              description |-> description]

(***************************************************************************)
(* Campuses and rating-site school identifiers.                            *)
(***************************************************************************)
AB_KC == <<"K","C">>
AB_EC == <<"E","C">>
AB_TR == <<"T","R">>
AB_TU == <<"T","U">>
AB_ST == <<"S","T">>
AB_GC == <<"G","C">>
AB_AC == <<"A","C">>
AB_SA == <<"S","A">>
Kent == <<"K","e","n","t">>
EastLiverpool == <<"E","a","s","t"," ","L","i","v","e","r","p","o","o","l">>
Trumbull == <<"T","r","u","m","b","u","l","l">>
Tuscarawas == <<"T","u","s","c","a","r","a","w","a","s">>
Stark == <<"S","t","a","r","k">>
Geauga == <<"G","e","a","u","g","a">>
Ashtabula == <<"A","s","h","t","a","b","u","l","a">>
Salem == <<"S","a","l","e","m">>
Unknown == <<"U","n","k","n","o","w","n">>

detectCampusNameByAbbreviation(abbreviation) ==
    IF abbreviation = AB_KC THEN Kent
    ELSE IF abbreviation = AB_EC THEN EastLiverpool
    ELSE IF abbreviation = AB_TR THEN Trumbull
    ELSE IF abbreviation = AB_TU THEN Tuscarawas
    ELSE IF abbreviation = AB_ST THEN Stark
    ELSE IF abbreviation = AB_GC THEN Geauga
    ELSE IF abbreviation = AB_AC THEN Ashtabula
    ELSE IF abbreviation = AB_SA THEN Salem
    ELSE Unknown

\* enum RmpCampusIds
RmpCampusIds ==
    [KENT |-> "U2Nob29sLTQ4Mg==", EAST_LIVERPOOL |-> "U2Nob29sLTIzMTA=",
     TRUMBULL |-> "U2Nob29sLTIzMTI=", TUSCARAWAS |-> "U2Nob29sLTIzMTM=",
     STARK |-> "U2Nob29sLTQyNjg=", GEAUGA |-> "U2Nob29sLTUyMDg=",
     ASHTABULA |-> "U2Nob29sLTIzMTA=", SALEM |-> "U2Nob29sLTIzMTE="]

\* the fuzzy-match variant queries one school only
SCHOOL_RMP_ID == "U2Nob29sLTQ4Mg=="

detectRMPCampusId(abbreviation) ==
    IF abbreviation = EastLiverpool THEN RmpCampusIds.EAST_LIVERPOOL
    ELSE IF abbreviation = Trumbull THEN RmpCampusIds.TRUMBULL
    ELSE IF abbreviation = Tuscarawas THEN RmpCampusIds.TUSCARAWAS
    ELSE IF abbreviation = Stark THEN RmpCampusIds.STARK
    ELSE IF abbreviation = Geauga THEN RmpCampusIds.GEAUGA
    ELSE IF abbreviation = Ashtabula THEN RmpCampusIds.ASHTABULA
    ELSE IF abbreviation = Salem THEN RmpCampusIds.SALEM
    ELSE RmpCampusIds.KENT

\* CampusType values callers pass
C_any == <<"a","n","y">>
C_kent == <<"k","e","n","t">>
C_stark == <<"s","t","a","r","k">>
C_east_liverpool == <<"e","a","s","t","_","l","i","v","e","r","p","o","o","l">>
\* 'trumbull'
C_trumbull == <<"t","r","u","m","b","u","l","l">>
\* 'tuscarawas'
C_tuscarawas == <<"t","u","s","c","a","r","a","w","a","s">>
\* 'geauga'
C_geauga == <<"g","e","a","u","g","a">>
\* 'ashtabula'
C_ashtabula == <<"a","s","h","t","a","b","u","l","a">>
\* 'salem'
C_salem == <<"s","a","l","e","m">>
\* 'guaga'
C_guaga == <<"g","u","a","g","a">>

\* type CampusType
CampusType ==
    {C_any, C_kent, C_east_liverpool, C_trumbull, C_tuscarawas, C_stark,
     C_geauga, C_ashtabula, C_salem}

\* isCampusType: the lower-cased input against the nine literals of the
\* function body
isCampusType(input) ==
    LET lower == toLowerCase(input)
    IN  \/ lower = C_any
        \/ lower = C_kent
        \/ lower = C_east_liverpool
        \/ lower = C_trumbull
        \/ lower = C_tuscarawas
        \/ lower = C_stark
        \/ lower = C_guaga
        \/ lower = C_ashtabula
        \/ lower = C_salem

Campuses == {C_any, C_kent, C_stark}

(***************************************************************************)
(* Term codes: <<year, code>> stands for the string year + code.           *)
(***************************************************************************)
TERM_NAMES == <<"Spring", "Summer", "Fall">>
TERM_CODES == <<"10", "50", "80">>

\* moment().get("quarter") is 1..4
Quarters == 1..4

getTermCodesSurroundingCurrentDate(year, quarter) ==
    CASE quarter = 0 -> << <<year, TERM_CODES[1]>>, <<year, TERM_CODES[2]>> >>
      [] quarter = 1 -> << <<year, TERM_CODES[2]>>, <<year, TERM_CODES[3]>> >>
      [] OTHER       -> << <<year, TERM_CODES[3]>>, <<year + 1, TERM_CODES[1]>> >>

getTermNameFromTermCode(code) ==
    <<TERM_NAMES[PosIn(TERM_CODES, code[2])], code[1]>>

(***************************************************************************)
(* Instructor clean-up.                                                    *)
(***************************************************************************)
\* .replace(/\(.+\)/, ""): from the leftmost "(" that has a ")" at least two
\* places on, with no line break between, to the last such ")"
removeParenGreedy(s) ==
    LET ends(i) == {j \in (i + 2)..Len(s) :
                        /\ s[j] = ")"
                        /\ \A k \in (i + 1)..(j - 1) : s[k] # "\n"}
        opens   == {i \in 1..Len(s) : s[i] = "(" /\ ends(i) # {}}
    IN  IF opens = {} THEN s
        ELSE LET i == CHOOSE x \in opens : \A y \in opens : x <= y
                 j == CHOOSE x \in ends(i) : \A y \in ends(i) : y <= x
             IN  Take(s, i - 1) \o Drop(s, j)

\* .replace(/\s{2,}/g, " ")
RECURSIVE collapseSpaces(_)
collapseSpaces(s) ==
    IF s = << >> THEN << >>
    ELSE LET n == RunLen(s, SpaceChars)
         IN  IF n >= 2 THEN <<" ">> \o collapseSpaces(Drop(s, n))
             ELSE <<s[1]>> \o collapseSpaces(Tail(s))

\* .replace(/\s,\s/g, ", ")
RECURSIVE fixCommas(_)
fixCommas(s) ==
    IF s = << >> THEN << >>
    ELSE IF Len(s) >= 3 /\ IsSpace(s[1]) /\ s[2] = "," /\ IsSpace(s[3])
         THEN <<",", " ">> \o fixCommas(Drop(s, 3))
         ELSE <<s[1]>> \o fixCommas(Tail(s))

\* [a-zA-Z.]
NameChars == LetterChars \cup {"."}

\* PROFESSOR_NAME_REGEX = /(\w+)\s?([a-zA-Z.]+)?\s(\w+)/g tried at position i:
\* the lengths <<a, sp, b>> of group 1, the optional space and group 2 that the
\* backtracking search reaches first (each as long as possible, in that
\* order), or << >> when there is no match at i
nameMatchAt(s, i) ==
    LET r     == Drop(s, i - 1)
        cands == {t \in (1..RunLen(r, WordChars)) \X {0, 1} \X (0..Len(r)) :
                    /\ t[2] = 1 => (t[1] < Len(r) /\ IsSpace(r[t[1] + 1]))
                    /\ t[3] <= RunLen(Drop(r, t[1] + t[2]), NameChars)
                    /\ t[1] + t[2] + t[3] < Len(r)
                    /\ IsSpace(r[t[1] + t[2] + t[3] + 1])
                    /\ RunLen(Drop(r, t[1] + t[2] + t[3] + 1), WordChars) >= 1}
        before(t, u) == \/ t[1] > u[1]
                        \/ t[1] = u[1] /\ t[2] > u[2]
                        \/ t[1] = u[1] /\ t[2] = u[2] /\ t[3] >= u[3]
    IN  IF cands = {} THEN << >>
        ELSE CHOOSE t \in cands : \A u \in cands : before(t, u)

\* .replace(PROFESSOR_NAME_REGEX, "$1 $3")
RECURSIVE replaceNames(_)
replaceNames(s) ==
    IF s = << >> THEN << >>
    ELSE LET m == nameMatchAt(s, 1)
         IN  IF m = << >> THEN <<s[1]>> \o replaceNames(Tail(s))
             ELSE LET p  == m[1] + m[2] + m[3] + 1
                      g3 == RunLen(Drop(s, p), WordChars)
                  IN  Take(s, m[1]) \o <<" ">> \o SubSeq(s, p + 1, p + g3)
                          \o replaceNames(Drop(s, p + g3))

\* the GraphQL variant's clean-up of the instructor cell
cleanInstructor(raw) ==
    trim(replaceNames(fixCommas(collapseSpaces(removeParenGreedy(raw)))))

\* ' , '
SPACE_COMMA_SPACE == <<" ",","," ">>
\* ', '
COMMA_SPACE == <<","," ">>

\* the fuzzy-match variant's clean-up: .replace(" , ", ", ") and no name regex
cleanInstructorFuzzy(raw) ==
    trim(replaceFirst(collapseSpaces(removeParenGreedy(raw)),
                      SPACE_COMMA_SPACE, COMMA_SPACE))

(***************************************************************************)
(* The section listing: table.datadisplaytable as parsetable returns it,   *)
(* one record per grid row holding the cells of the columns the code       *)
(* reads (c0 = table[0][row], ...).  An empty grid is a page without the   *)
(* table.  Two heading rows, then for each section its row and a row of    *)
(* dashes.                                                                 *)
(***************************************************************************)
\* COURSE_SEPARATOR = /-{342}/
SeparatorLen == 342
Dashes == [i \in 1..SeparatorLen |-> "-"]
COURSE_SEPARATOR(cell) == includes(cell, Dashes)

\* 'CS - 1000 - 001'
CELL_001 == <<"C","S"," ","-"," ","1","0","0","0"," ","-"," ","0","0","1">>
\* 'CS - 1000 - 01L'
CELL_01L == <<"C","S"," ","-"," ","1","0","0","0"," ","-"," ","0","1","L">>
\* 'CS - 1000 - 002'
CELL_002 == <<"C","S"," ","-"," ","1","0","0","0"," ","-"," ","0","0","2">>
\* 'Al Bo (P)'
INSTR_AL == <<"A","l"," ","B","o"," ","(","P",")">>
\* 'Cy Di (P) , Al Bo'
INSTR_BOTH == <<"C","y"," ","D","i"," ","(","P",")"," ",","," ","A","l"," ","B","o">>
\* 'Ed Fy (P)'
INSTR_ED == <<"E","d"," ","F","y"," ","(","P",")">>
\* 'Cy Di (P) , Ed Fy , Al Bo'
INSTR_THREE ==
    <<"C","y"," ","D","i"," ","(","P",")"," ",","," ","E","d"," ","F","y"," ",",",
      " ","A","l"," ","B","o">>
\* 'TBA'
TBA == <<"T","B","A">>

\* 'Web COURSE'
LOC_WEB == <<"W","e","b"," ","C","O","U","R","S","E">>
\* 'Bowman Hall 00133'
LOC_BOW == <<"B","o","w","m","a","n"," ","H","a","l","l"," ","0","0","1","3","3">>
\* 'Library 0012E'
LOC_LIB == <<"L","i","b","r","a","r","y"," ","0","0","1","2","E">>
\* 'Nowhere Hall 00101'
LOC_NOWHERE == <<"N","o","w","h","e","r","e"," ","H","a","l","l"," ","0","0","1","0","1">>
\* 'Bowman Hall  00133'
LOC_WIDE == <<"B","o","w","m","a","n"," ","H","a","l","l"," "," ","0","0","1","3","3">>
\* 'Online'
ONLINE == <<"O","n","l","i","n","e">>
\* 'https://canvas.kent.edu'
CANVAS_URL == <<"h","t","t","p","s",":","/","/","c","a","n","v","a","s",".","k","e","n","t",".","e","d","u">>
\* 'Bowman Hall'
BOWMAN_HALL == <<"B","o","w","m","a","n"," ","H","a","l","l">>
\* 'Library'
LIBRARY == <<"L","i","b","r","a","r","y">>
\* 'Main Hall'
MAIN_HALL == <<"M","a","i","n"," ","H","a","l","l">>
\* 'undefined'
UNDEFINED_TEXT == <<"u","n","d","e","f","i","n","e","d">>

HeadRow(text) ==
    [c0 |-> text, c3 |-> text, c4 |-> text, c8 |-> text, c9 |-> text,
     c15 |-> text, c16 |-> text, c20 |-> text]
SepRow == HeadRow(Dashes)
SecRow(crn, ident, enrolled, open, instructor, camp) ==
    [c0 |-> << >>, c3 |-> crn, c4 |-> ident, c8 |-> enrolled, c9 |-> open,
     c15 |-> LOC_WEB, c16 |-> instructor, c20 |-> camp]
\* the first row of a section that meets at loc
LocRow(crn, ident, loc) ==
    [SecRow(crn, ident, <<"1">>, <<"1">>, TBA, AB_KC) EXCEPT !.c15 = loc]
\* a further row of a section, for one more meeting place
ContRow(loc) ==
    [c0 |-> << >>, c3 |-> << >>, c4 |-> << >>, c8 |-> << >>, c9 |-> << >>,
     c15 |-> loc, c16 |-> << >>, c20 |-> << >>]

GRID_NONE == << >>
GRID_ONE ==
    << HeadRow(<<"S">>), HeadRow(<<"H">>),
       SecRow(<<"1","1">>, CELL_001, <<"1","2">>, <<"0">>, INSTR_AL, AB_KC),
       SepRow >>
GRID_TWO ==
    << HeadRow(<<"S">>), HeadRow(<<"H">>),
       SecRow(<<"1","2">>, CELL_01L, <<"5">>, <<"7">>, INSTR_BOTH, AB_ST),
       SepRow,
       SecRow(<<"1","3">>, CELL_002, <<"3">>, <<"0">>, TBA, AB_KC),
       SepRow >>
\* a listing with two sections of one instructor, the later code first and on
\* two campuses, and a section with three instructors
GRID_MANY ==
    << HeadRow(<<"S">>), HeadRow(<<"H">>),
       SecRow(<<"2","1">>, CELL_002, <<"4">>, <<"1">>, INSTR_ED, AB_KC),
       SepRow,
       SecRow(<<"2","2">>, CELL_001, <<"2">>, <<"2">>, INSTR_ED, AB_EC),
       SepRow,
       SecRow(<<"2","3">>, CELL_01L, <<"1">>, <<"0">>, INSTR_THREE, AB_ST),
       SepRow >>

\* the body of a listing answer: the rows of its data display table
Html(table) == [kind |-> "html", table |-> table]

\* Number(cell) for a cell of digits (0 for the empty cell), else NaN
NaN == -1
RECURSIVE DigitsValue(_)
DigitsValue(s) ==
    IF s = << >> THEN 0
    ELSE 10 * DigitsValue(Take(s, Len(s) - 1))
            + (CHOOSE d \in 0..9 : NumToString(d) = <<s[Len(s)]>>)
Number(cell) ==
    LET t == trim(cell)
    IN  IF \A i \in DOMAIN t : t[i] \in DigitChars THEN DigitsValue(t) ELSE NaN
Plus(a, b) == IF a = NaN \/ b = NaN THEN NaN ELSE a + b

\* table[0].findIndex((e, i) => e.match(COURSE_SEPARATOR) && i > after),
\* with 0-based indices
findSeparatorAfter(table, after) ==
    LET hits == {i \in 0..(Len(table) - 1) :
                    COURSE_SEPARATOR(table[i + 1].c0) /\ i > after}
    IN  IF hits = {} THEN -1 ELSE CHOOSE i \in hits : \A j \in hits : i <= j

\* a sum that takes the seats still open for the capacity
enrollmentOf_openAsMax(enrollment, remainOpen) ==
    [current |-> enrollment, max |-> remainOpen, full |-> remainOpen = 0]

\* enrollment: { current: enrollment, max: enrollment + remainOpen,
\*               full: remainOpen == 0 }
enrollmentOf(enrollment, remainOpen) ==
    [current |-> enrollment, max |-> Plus(enrollment, remainOpen),
     full |-> remainOpen = 0]

\* the members of BuildingCode the sample listings name, in the order of
\* Object.keys
BuildingCode ==
    << [key |-> <<"B","O","W">>, value |-> BOWMAN_HALL],
       [key |-> <<"L","I","B">>, value |-> LIBRARY],
       [key |-> <<"R","C","M">>, value |-> MAIN_HALL] >>

\* the first key whose value is the name, undefined when there is none
detectBuildingCodeByName(name) ==
    LET hits == {i \in DOMAIN BuildingCode : BuildingCode[i].value = name}
    IN  IF hits = {} THEN UNDEFINED
        ELSE BuildingCode[CHOOSE i \in hits : \A j \in hits : i <= j].key

\* /([a-zA-Z\s\\-]+)\s([\dED]{5})/.exec(text): the leftmost match, its
\* first group as long as it can be; undefined is read as 'undefined'
BuildingNameChars == LetterChars \cup SpaceChars \cup {"\\", "-"}
RoomChars == DigitChars \cup {"E", "D"}
execBuilding(text) ==
    LET t == IF text = UNDEFINED THEN UNDEFINED_TEXT ELSE text
        ends == {e \in 1..(Len(t) - 6) :
                    /\ IsSpace(t[e + 1])
                    /\ \A i \in (e + 2)..(e + 6) : t[i] \in RoomChars}
        fits(b, e) == b <= e /\ \A i \in b..e : t[i] \in BuildingNameChars
        starts == {b \in DOMAIN t : \E e \in ends : fits(b, e)}
    IN  IF starts = {} THEN NULL
        ELSE LET b == CHOOSE x \in starts : \A y \in starts : x <= y
                 e == CHOOSE x \in ends :
                         fits(b, x) /\ \A y \in ends : fits(b, y) => y <= x
             IN  [kind |-> "match", name |-> SubSeq(t, b, e),
                  room |-> SubSeq(t, e + 2, e + 6)]

\* { name: "Online", url: "https://canvas.kent.edu" }
Online == [name |-> ONLINE, url |-> CANVAS_URL]

\* a scan that reads one row only
scanGoesOn_never(buildingIndexOffset, length) == FALSE

\* while (buildingIndexOffset <= table[15].length)
scanGoesOn(buildingIndexOffset, length) == buildingIndexOffset <= length

\* the do-while over the location column from its pass at buildingIndexOffset
\* on: the locations pushed
RECURSIVE scanLocations(_, _, _, _)
scanLocations(table, tableIndex, buildingIndexOffset, location) ==
    LET at == tableIndex + buildingIndexOffset
        buildingNameRaw == IF at >= 0 /\ at < Len(table) THEN table[at + 1].c15
                           ELSE UNDEFINED
        buildingRaw == execBuilding(buildingNameRaw)
        buildingCode == IF buildingRaw # NULL
                        THEN detectBuildingCodeByName(buildingRaw.name)
                        ELSE UNDEFINED
        pushed == IF buildingNameRaw = LOC_WEB THEN Append(location, Online)
                  ELSE Append(location,
                              [name |-> buildingCode \o <<" ">> \o buildingRaw.room])
    IN  IF buildingNameRaw # LOC_WEB /\ buildingCode = UNDEFINED THEN location
        ELSE IF scanGoesOn(buildingIndexOffset + 1, Len(table))
        THEN scanLocations(table, tableIndex, buildingIndexOffset + 1, pushed)
        ELSE pushed

\* one pass of the section loop body: the section read at tableIndex
sectionAt(table, tableIndex, termCode, variant) ==
    LET row == table[tableIndex + 1]
        identifierRaw == split(row.c4, SEP_DASH)
        enrollment == Number(row.c8)
        remainOpen == Number(row.c9)
    IN  [campus |-> detectCampusNameByAbbreviation(row.c20),
         enrollment |-> enrollmentOf(enrollment, remainOpen),
         instructor |-> IF variant = "fuzzy" THEN cleanInstructorFuzzy(row.c16)
                        ELSE cleanInstructor(row.c16),
         section |-> At(identifierRaw, 2),
         term |-> getTermNameFromTermCode(termCode),
         location |-> scanLocations(table, tableIndex, 0, << >>),
         internal |-> [classNumber |-> row.c3,
                       classSection |-> At(identifierRaw, 2),
                       sessionCode |-> "1",
                       termCode |-> termCode]]

\* the section loop from its i-th pass on: the sections pushed, or threw when
\* tableIndex is outside the grid (table[16][tableIndex] is undefined)
RECURSIVE sectionLoop(_, _, _, _, _, _)
sectionLoop(table, left, lastSectionSeparator, termCode, variant, acc) ==
    LET tableIndex == lastSectionSeparator + 1
    IN  IF left = 0 THEN [threw |-> FALSE, sections |-> acc]
        ELSE IF tableIndex < 0 \/ tableIndex >= Len(table) THEN [threw |-> TRUE]
        ELSE sectionLoop(table, left - 1,
                         findSeparatorAfter(table, lastSectionSeparator),
                         termCode, variant,
                         Append(acc, sectionAt(table, tableIndex, termCode, variant)))

\* searchCourse's parse of one term's listing, appended to sections
parseSections(table, termCode, variant, sections) ==
    LET sectionCount ==
            IF Len(table) # 0
            THEN Cardinality({i \in DOMAIN table : COURSE_SEPARATOR(table[i].c0)})
            ELSE 0
    IN  sectionLoop(table, sectionCount, 1, termCode, variant, sections)

\* a comparison that minds the case
campusMatches_caseSensitive(section, campus) ==
    replaceFirst(section.campus, <<" ">>, <<"_">>) = campus

\* section.campus.replace(' ', '_').toLowerCase() === campus.toLowerCase()
campusMatches(section, campus) ==
    toLowerCase(replaceFirst(section.campus, <<" ">>, <<"_">>)) = toLowerCase(campus)

filterCampus(sections, campus) ==
    IF campus # C_any THEN SelectSeq(sections, LAMBDA s : campusMatches(s, campus))
    ELSE sections

(***************************************************************************)
(* a.section.localeCompare(b.section) < 0 for codes of digits and letters: *)
(* digits before letters, letters alphabetically whatever their case, and  *)
(* between codes that differ in case only, lower case first.               *)
(***************************************************************************)
PrimaryKey(c) ==
    IF c \in DigitChars THEN DigitsValue(<<c>>) + 1
    ELSE IF c \in LetterChars THEN 10 + PosIn(LowerLetters, LowerChar(c))
    ELSE 0
TertiaryKey(c) == IF IsUpper(c) THEN 1 ELSE 0

\* lexicographic order of two sequences of numbers
RECURSIVE LexLess(_, _)
LexLess(a, b) ==
    IF b = << >> THEN FALSE
    ELSE IF a = << >> THEN TRUE
    ELSE IF a[1] # b[1] THEN a[1] < b[1]
    ELSE LexLess(Tail(a), Tail(b))

localeBefore(a, b) ==
    LET pa == [i \in DOMAIN a |-> PrimaryKey(a[i])]
        pb == [i \in DOMAIN b |-> PrimaryKey(b[i])]
        ta == [i \in DOMAIN a |-> TertiaryKey(a[i])]
        tb == [i \in DOMAIN b |-> TertiaryKey(b[i])]
    IN  IF pa # pb THEN LexLess(pa, pb) ELSE LexLess(ta, tb)

\* .sort((a, b) => a.section.localeCompare(b.section)): a stable sort
RECURSIVE insertSection(_, _)
insertSection(sorted, x) ==
    IF sorted = << >> THEN <<x>>
    ELSE IF localeBefore(x.section, sorted[Len(sorted)].section)
         THEN Append(insertSection(Take(sorted, Len(sorted) - 1), x),
                     sorted[Len(sorted)])
         ELSE Append(sorted, x)
RECURSIVE sortSections(_)
sortSections(list) ==
    IF list = << >> THEN << >>
    ELSE insertSection(sortSections(Take(list, Len(list) - 1)), list[Len(list)])

(***************************************************************************)
(* rmpIds.json, the bundled name -> identifiers table of the fuzzy-match   *)
(* variant, and string-similarity's compareTwoStrings (the Dice            *)
(* coefficient of the two strings' letter pairs), as a fraction.           *)
(***************************************************************************)
\* 'Al Bo'
P_ALBO == <<"A","l"," ","B","o">>
\* 'Al Bobb'
P_ALBOBB == <<"A","l"," ","B","o","b","b">>
\* 'Al Bob'
P_ALBOB == <<"A","l"," ","B","o","b">>
\* 'al bo'
P_albo == <<"a","l"," ","b","o">>
\* 'Cy Di'
P_CYDI == <<"C","y"," ","D","i">>
\* 'Zed Yu'
P_ZED == <<"Z","e","d"," ","Y","u">>
\* ' '
P_BLANK == <<" ">>

RmpIds ==
    << [name |-> P_ALBO, rmpIds |-> <<"VGVhY2hlci0x">>],
       [name |-> P_ALBOBB, rmpIds |-> <<"VGVhY2hlci0y", "VGVhY2hlci0z">>] >>

\* the instructor names callers pass to searchRMP
Instructors == {P_ALBO, P_albo, P_ALBOB, P_CYDI, P_ZED, P_BLANK, TBA}

\* .replace(/\s+/g, '')
removeSpaces(s) == SelectSeq(s, LAMBDA c : ~IsSpace(c))

\* the letter pairs of s, in order
Bigrams(s) == [i \in 1..(Len(s) - 1) |-> <<s[i], s[i + 1]>>]

\* how many pairs of second find a not yet used equal pair of first
RECURSIVE IntersectionSize(_, _)
IntersectionSize(firstBigrams, secondBigrams) ==
    IF secondBigrams = << >> THEN 0
    ELSE LET hits == {i \in DOMAIN firstBigrams : firstBigrams[i] = secondBigrams[1]}
         IN  IF hits = {} THEN IntersectionSize(firstBigrams, Tail(secondBigrams))
             ELSE LET i == CHOOSE x \in hits : TRUE
                  IN  1 + IntersectionSize(
                            Take(firstBigrams, i - 1) \o Drop(firstBigrams, i),
                            Tail(secondBigrams))

\* similarity.compareTwoStrings(first, second) as <<numerator, denominator>>
compareTwoStrings(first, second) ==
    LET a == removeSpaces(first)
        b == removeSpaces(second)
    IN  IF a = b THEN <<1, 1>>
        ELSE IF Len(a) < 2 \/ Len(b) < 2 THEN <<0, 1>>
        ELSE <<2 * IntersectionSize(Bigrams(a), Bigrams(b)), Len(a) + Len(b) - 2>>

\* similarity > 0.70
SimilarityNum == 7
SimilarityDen == 10
aboveThreshold(sim) == sim[1] * SimilarityDen > SimilarityNum * sim[2]

\* fraction x is greater than fraction y
FracGreater(x, y) == x[1] * y[2] > y[1] * x[2]

\* .sort((a, b) => b.similarity - a.similarity): stable, most similar first
RECURSIVE insertSimilar(_, _)
insertSimilar(sorted, x) ==
    IF sorted = << >> THEN <<x>>
    ELSE IF FracGreater(x.similarity, sorted[Len(sorted)].similarity)
         THEN Append(insertSimilar(Take(sorted, Len(sorted) - 1), x),
                     sorted[Len(sorted)])
         ELSE Append(sorted, x)
RECURSIVE sortSimilar(_)
sortSimilar(list) ==
    IF list = << >> THEN << >>
    ELSE insertSimilar(sortSimilar(Take(list, Len(list) - 1)), list[Len(list)])

\* a ratings record
Rmp(name, rmpIds) == [kind |-> "rmp", name |-> name, rmpIds |-> rmpIds]

\* whether the fuzzy-match variant goes on to the live query:
\* !(!instructor.trim() || instructor.split(',').length)
queriesLive(instructor) ==
    ~(trim(instructor) = << >> \/ Len(split(instructor, <<",">>)) # 0)

\* the fuzzy-match variant of searchRMP up to its await: the value it returns
\* without a request, or "request" when it goes on to the live query
searchRMPLocal(instructor) ==
    LET exact   == {i \in DOMAIN RmpIds :
                        toLowerCase(RmpIds[i].name) = toLowerCase(instructor)}
        scored  == [i \in DOMAIN RmpIds |->
                        [name |-> RmpIds[i].name, rmpIds |-> RmpIds[i].rmpIds,
                         similarity |-> compareTwoStrings(instructor, RmpIds[i].name)]]
        similar == SelectSeq(sortSimilar(scored),
                             LAMBDA e : aboveThreshold(e.similarity))
    IN  IF exact # {}
        THEN [kind |-> "value",
              value |-> Rmp(instructor,
                            RmpIds[CHOOSE i \in exact : \A j \in exact : i <= j].rmpIds)]
        ELSE IF Len(similar) # 0
        THEN [kind |-> "value", value |-> Rmp(similar[1].name, similar[1].rmpIds)]
        ELSE IF ~queriesLive(instructor) THEN [kind |-> "value", value |-> NULL]
        ELSE [kind |-> "request"]

\* the bodies the ratings search can answer with: the identifiers of the
\* matching teachers
RatingsBodies ==
    {[kind |-> "json", ids |-> << >>], [kind |-> "json", ids |-> <<"VGVhY2hlci05">>]}

\* searchRMP after its await
searchRMPResult(instructor, res) ==
    IF res = NULL THEN Rmp(instructor, << >>) ELSE Rmp(instructor, res.ids)

(***************************************************************************)
(* getRmpReport: the node query answers null on any failure, else a body   *)
(* whose node is the teacher's record, or null for an identifier that      *)
(* names no teacher.                                                       *)
(***************************************************************************)
TEACHER_NODE ==
    [kind |-> "node", firstName |-> <<"A","l">>, lastName |-> <<"B","o">>,
     avgRating |-> 4, avgDifficultyRounded |-> 3, wouldTakeAgainPercent |-> 80,
     numRatings |-> 12, teacherRatingTags |-> <<"Caring", "Tough grader">>]

\* the identifiers callers pass to getRmpReport: a teacher's, and one that
\* names no teacher
ID_TEACHER == "VGVhY2hlci0x"
ID_BOGUS == "bogus"
ReportIds == {ID_TEACHER, ID_BOGUS}

\* the bodies the node query can answer with
ReportBodies(id) ==
    IF id = ID_TEACHER THEN {[kind |-> "json", node |-> TEACHER_NODE]}
    ELSE {[kind |-> "json", node |-> NULL]}

\* getRmpReport after its await: reading a property of a null node throws
getRmpReportResult(res) ==
    IF res = NULL THEN [threw |-> FALSE, value |-> NULL]
    ELSE IF res.node = NULL THEN [threw |-> TRUE]
    ELSE [threw |-> FALSE,
          value |-> [kind |-> "report",
                     name |-> res.node.firstName \o <<" ">> \o res.node.lastName,
                     average |-> res.node.avgRating,
                     difficulty |-> res.node.avgDifficultyRounded,
                     ratings |-> res.node.numRatings,
                     takeAgain |-> res.node.wouldTakeAgainPercent,
                     tags |-> res.node.teacherRatingTags]]

(***************************************************************************)
(* HTTP.  A request ends in a network error or in a response with a status *)
(* and a body; axios rejects on a network error and on a status outside    *)
(* 2xx, and every request of the code is followed by                       *)
(* .then(res => res.data).catch(_ => null).                                *)
(***************************************************************************)
HttpOutcomes(bodies) ==
    {[kind |-> "error"], [kind |-> "response", status |-> 500, data |-> NULL]}
        \cup {[kind |-> "response", status |-> 200, data |-> b] : b \in bodies}

httpFailed(http) ==
    http.kind = "error" \/ http.status < 200 \/ http.status >= 300

\* axios.get(...).then(res => res.data).catch(_ => null)
getCatalogUrl(http) == IF httpFailed(http) THEN NULL ELSE http.data
\* axios.post(...).then(res => res.data).catch(_ => null)
getCatalogSections(http) == IF httpFailed(http) THEN NULL ELSE http.data
\* the ratings requests of searchRMP and getRmpReport
postGraphql(http) == IF httpFailed(http) THEN NULL ELSE http.data

\* a 200 response with an empty body: a document with neither element
EMPTY_BODY == [kind |-> "empty", nttitle |-> << >>, ntdefault |-> << >>]

CatalogBodies == {PAGE_A, PAGE_B, PAGE_EMPTY, EMPTY_BODY}
SectionBodies == {Html(GRID_NONE), Html(GRID_ONE), Html(GRID_TWO)}

\* searchCourse going on with whatever getCatalogUrl resolved to
catalogMissing_never(catalogData) == FALSE

\* !catalogData
catalogMissing(catalogData) == catalogData = NULL \/ catalogData = EMPTY_BODY

\* cheerio.load(content) throws on null ("cheerio.load() expects a string")
cheerioLoadThrows(content) == content = NULL

(***************************************************************************)
(* The state: one exported operation runs at a time, from its call to the  *)
(* settling of its promise.                                                *)
(***************************************************************************)
VARIABLES
    op,          \* the exported operation that was called, "none" before
    pc,          \* "idle", the request the call awaits, or "done"
    args,        \* the arguments of the call, with the date it was made at
    loc,         \* the local variables of searchCourse
    requests,    \* the HTTP requests the call has issued, in order
    lookups,     \* how often the call searched the bundled course table
    outstanding, \* the requests issued and not yet answered
    answers,     \* what each answered request resolved to, in order
    failed,      \* the requests, by their place in `requests`, that failed
    outcome,     \* "pending", "returned" or "threw" (the promise rejected)
    result,      \* the value the call resolved to
    courseResult, \* what searchCourse gave searchBySection
    lastIndex,   \* PROFESSOR_NAME_REGEX.lastIndex, the one mutable field of
                 \* the module's constants
    earlier,     \* a searchCourse call the caller has kept, to set a later
                 \* one against
    disk,        \* the mapping generator's working directory: courses.json
                 \* and its backups
    gen          \* the mapping generator: its position and local variables

vars == <<op, pc, args, loc, requests, lookups, outstanding, answers, failed,
          outcome, result, courseResult, lastIndex, earlier, disk, gen>>

\* the variables of the module's calls
callVars == <<op, pc, args, loc, requests, lookups, outstanding, answers, failed,
              outcome, result, courseResult, lastIndex, earlier>>

\* no call was kept
NoEarlier == [kept |-> FALSE]

\* a file that does not exist
NoFile == [exists |-> FALSE]
\* a working directory without courses.json
NoDisk == [courses |-> NoFile, backups |-> {}]
\* the generator before it is run
NoGen ==
    [pc |-> "idle", run |-> 0, urls |-> << >>, i |-> 1, courses |-> << >>,
     requested |-> << >>, outcome |-> "pending", wrote |-> FALSE]

Variants == {"graphql", "fuzzy"}
Years == {2023}
\* the date of a call: the hour decides the mapped record's lastDataMarker
Dates == {[day |-> 10, hour |-> 3], [day |-> 10, hour |-> 12]}

NoArgs ==
    [identifier |-> << >>, campus |-> C_any, useMappings |-> FALSE,
     include |-> {}, section |-> << >>, instructor |-> << >>,
     rmpCampus |-> RmpCampusIds.KENT, id |-> "", variant |-> "graphql",
     year |-> 2023, quarter |-> 1, now |-> [day |-> 10, hour |-> 12],
     name |-> << >>, deep |-> FALSE]

NoMeta == [threw |-> TRUE]

NoLoc ==
    [campus |-> C_any, include |-> {}, prefix |-> << >>, number |-> << >>,
     meta |-> NoMeta,
     sections |-> << >>, professors |-> << >>, terms |-> << >>,
     ti |-> 0, si |-> 0, pi |-> 0]

NoCourse == [outcome |-> "none", value |-> NULL]

\* a step of a handler: where it stops, what it requested, what it settled to
Await(what, request, l, look) ==
    [pc |-> what, loc |-> l, reqs |-> <<request>>, look |-> look,
     outcome |-> "pending", value |-> NULL]
Return(value, l, look) ==
    [pc |-> "done", loc |-> l, reqs |-> << >>, look |-> look,
     outcome |-> "returned", value |-> value]
Throw(l, look) ==
    [pc |-> "done", loc |-> l, reqs |-> << >>, look |-> look,
     outcome |-> "threw", value |-> NULL]

\* a record whose credits carry the date it was built at
Course_stamped(meta, sections, professors) ==
    [kind |-> "course", name |-> meta.name, grading |-> meta.grading,
     credits |-> meta.lastDataMarker, prereqs |-> meta.prereqs,
     lastDataMarker |-> meta.lastDataMarker, description |-> meta.description,
     sections |-> sections, professors |-> professors]

Course(meta, sections, professors) ==
    [kind |-> "course", name |-> meta.name, grading |-> meta.grading,
     credits |-> meta.credits, prereqs |-> meta.prereqs,
     lastDataMarker |-> meta.lastDataMarker, description |-> meta.description,
     sections |-> sections, professors |-> professors]

\* moment().isBefore(new Date().setHours(6)) ? setHours(-6) : setHours(0)
mappingMarker(now) ==
    IF now.hour < 6 THEN [day |-> now.day - 1, hour |-> 18]
    ELSE [day |-> now.day, hour |-> 0]

\* the record searchCourse builds from a course table entry
Mapped(mapping, now) ==
    [kind |-> "course", name |-> mapping.name, grading |-> mapping.grading,
     credits |-> NumToString(mapping.credits), prereqs |-> mapping.prerequisites,
     lastDataMarker |-> mappingMarker(now), description |-> mapping.description,
     sections |-> << >>, professors |-> << >>]

\* a lookup that never finds the identifier
mappingFound_never(mapping) == FALSE

\* !mapping is false
mappingFound(mapping) == mapping # NoMapping

\* a fall-back call that hands the caller's include on
fallbackInclude_same(include) == include

\* the include argument of the fall-back call searchCourse(identifier, campus, false, [])
fallbackInclude(include) == {}

\* a test that any requested part suffices
wantsSections_any(include) == include # {}

\* include.includes(SearchParts.SECTIONS)
wantsSections(include) == SECTIONS \in include
\* include.includes(SearchParts.PROFESSORS)
wantsProfessors(include) == PROFESSORS \in include

\* a first line that lets every identifier through
identifierRejected_never(identifier) == FALSE

\* !COURSE_IDENTIFIER.test(identifier)
identifierRejected(identifier) == ~COURSE_IDENTIFIER(identifier)

\* searchCourse from await getCatalogUrl(prefix, number) on: the request
courseLive(identifier, campus, include) ==
    LET l == [NoLoc EXCEPT !.campus = campus, !.include = include,
                           !.prefix = PrefixOf(identifier),
                           !.number = NumberOf(identifier)]
    IN  Await("catalog",
              [kind |-> "catalog", one_subj |-> l.prefix,
               sel_crse_strt |-> l.number],
              l, 0)

\* searchCourse from its first line to its first await or return; the
\* fall-back of the mapping branch is the call searchCourse(identifier,
\* campus, false, [])
RECURSIVE courseEntry(_, _, _, _, _)
courseEntry(identifier, campus, useMappings, include, now) ==
    IF identifierRejected(identifier) THEN Return(NULL, NoLoc, 0)
    ELSE IF useMappings
         THEN LET mapping == FindMapping(identifier)
              IN  IF ~mappingFound(mapping)
                  THEN [courseEntry(identifier, campus, FALSE,
                                    fallbackInclude(include), now)
                           EXCEPT !.look = @ + 1]
                  ELSE Return(Mapped(mapping, now), NoLoc, 1)
         ELSE courseLive(identifier, campus, include)

\* a term loop that sends a term's request twice before it waits
termStep_fanOut(l) ==
    IF l.ti > Len(l.terms)
    THEN Return(Course(l.meta, l.sections, l.professors), l, 0)
    ELSE [Await("sections",
                [kind |-> "sections", term_in |-> l.terms[l.ti],
                 sel_subj |-> l.prefix, sel_crse |-> l.number],
                l, 0) EXCEPT !.reqs = @ \o @]

\* the head of the term loop: the next listing request, or the final return
termStep(l) ==
    IF l.ti > Len(l.terms)
    THEN Return(Course(l.meta, l.sections, l.professors), l, 0)
    ELSE Await("sections",
               [kind |-> "sections", term_in |-> l.terms[l.ti],
                sel_subj |-> l.prefix, sel_crse |-> l.number],
               l, 0)

\* searchCourse after await getCatalogUrl(prefix, number)
courseAfterCatalog(l, catalogData, a) ==
    IF catalogMissing(catalogData) THEN Return(NULL, l, 0)
    ELSE IF cheerioLoadThrows(catalogData) THEN Throw(l, 0)
    ELSE LET meta == parseCatalog(catalogData, a.now)
         IN  IF meta.threw THEN Throw(l, 0)
             ELSE IF ~wantsSections(l.include)
             THEN Return(Course(meta, << >>, << >>), [l EXCEPT !.meta = meta], 0)
             ELSE termStep([l EXCEPT !.meta = meta,
                                     !.terms = getTermCodesSurroundingCurrentDate(
                                                   a.year, a.quarter),
                                     !.ti = 1])

\* a test that never looks at the professors already pushed
skipProfessor_tbaOnly(professors, prof, variant) ==
    variant = "graphql" /\ prof = TBA

\* professors.some(p => p.name === prof) || prof === "TBA"; the fuzzy-match
\* variant has the first test only
skipProfessor(professors, prof, variant) ==
    \/ \E i \in DOMAIN professors : professors[i].name = prof
    \/ variant = "graphql" /\ prof = TBA

\* sections.filter(section => section.instructor.split(" , ").includes(prof))
\*         .sort((a, b) => a.section.localeCompare(b.section))
teachingOf(sections, prof) ==
    sortSections(SelectSeq(sections,
        LAMBDA s : prof \in Range(split(s.instructor, SPACE_COMMA_SPACE))))

\* professors.push({ name: prof, sections: teaching, rmpIds: rmp ? rmp.rmpIds : [] })
pushProfessor(l, prof, rmp) ==
    [l EXCEPT !.professors =
        Append(@, [name |-> prof, sections |-> teachingOf(l.sections, prof),
                   rmpIds |-> IF rmp = NULL THEN << >> ELSE rmp.rmpIds])]

\* the professor the loop is at
profAt(l) == split(l.sections[l.si].instructor, COMMA_SPACE)[l.pi]

\* the professor loops from section l.si, name l.pi on, to the next await
RECURSIVE profLoop(_, _)
profLoop(l, variant) ==
    IF l.si > Len(l.sections) THEN termStep([l EXCEPT !.ti = @ + 1])
    ELSE IF l.pi > Len(split(l.sections[l.si].instructor, COMMA_SPACE))
    THEN profLoop([l EXCEPT !.si = @ + 1, !.pi = 1], variant)
    ELSE IF skipProfessor(l.professors, profAt(l), variant)
    THEN profLoop([l EXCEPT !.pi = @ + 1], variant)
    ELSE IF variant = "graphql"
    THEN Await("ratings",
               [kind |-> "ratings", text |-> profAt(l),
                schoolID |-> detectRMPCampusId(l.sections[l.si].campus)],
               l, 0)
    ELSE LET local == searchRMPLocal(profAt(l))
         IN  IF local.kind = "value"
             THEN profLoop([pushProfessor(l, profAt(l), local.value)
                               EXCEPT !.pi = @ + 1], variant)
             ELSE Await("ratings",
                        [kind |-> "ratings", text |-> profAt(l),
                         schoolID |-> SCHOOL_RMP_ID],
                        l, 0)

\* searchCourse after await getCatalogSections(termCode, prefix, number)
courseAfterSections(l, sectionDataTable, a) ==
    IF cheerioLoadThrows(sectionDataTable) THEN Throw(l, 0)
    ELSE LET parsed == parseSections(sectionDataTable.table, l.terms[l.ti], a.variant,
                                     l.sections)
         IN  IF parsed.threw THEN Throw(l, 0)
             ELSE LET kept == [l EXCEPT !.sections =
                                   filterCampus(parsed.sections, l.campus)]
                  IN  IF ~wantsProfessors(l.include)
                      THEN termStep([kept EXCEPT !.ti = @ + 1])
                      ELSE profLoop([kept EXCEPT !.si = 1, !.pi = 1], a.variant)

\* searchCourse after await searchRMP(prof, ...)
courseAfterRatings(l, rmp, a) ==
    profLoop([pushProfessor(l, profAt(l), rmp) EXCEPT !.pi = @ + 1], a.variant)

\* a comparison of the codes that minds the case
sectionEquals_exact(sec, section) == sec = section

\* sec => sec.toLowerCase() === section.toLowerCase()
sectionEquals(sec, section) == toLowerCase(sec) = toLowerCase(section)

\* searchBySection after await searchCourse(identifier, 'any')
sectionPayload(res, section) ==
    LET hits == {i \in DOMAIN res.sections :
                    sectionEquals(res.sections[i].section, section)}
    IN  IF hits = {} THEN NULL
        ELSE [kind |-> "section", name |-> res.name, grading |-> res.grading,
              credits |-> res.credits, prereqs |-> res.prereqs,
              lastDataMarker |-> res.lastDataMarker,
              description |-> res.description,
              section |-> res.sections[CHOOSE i \in hits : \A j \in hits : i <= j]]

(***************************************************************************)
(* searchProfessors.  professors.json, the bundled name -> e-mail table,   *)
(* is written by the mapping generator; the directory answers with a page  *)
(* whose data entry table has the person's record, or has no such table.   *)
(***************************************************************************)
\* 'Cher'
P_CHER == <<"C","h","e","r">>

ProfessorMappings ==
    << [kind |-> "professor", name |-> P_ALBO, email |-> "abo@kent.edu"],
       [kind |-> "professor", name |-> P_CHER, email |-> "cher@kent.edu"] >>

\* the names callers pass to searchProfessors: in the table and of name shape,
\* of name shape only, in the table only
ProfessorNames == {P_ALBO, P_CYDI, P_CHER}

DIR_RECORD ==
    [kind |-> "directory", table |-> TRUE, status |-> "Faculty",
     title |-> "Professor", department |-> "Computer Science",
     building |-> "MSB", mailBox |-> "233", phone |-> "330-672-0000"]
DIR_NONE ==
    [kind |-> "directory", table |-> FALSE, status |-> "", title |-> "",
     department |-> "", building |-> "", mailBox |-> "", phone |-> ""]
DirectoryBodies == {DIR_RECORD, DIR_NONE}

\* PROFESSOR_NAME_REGEX.exec(name): the pattern is global, so the search
\* starts at lastIndex; a match leaves lastIndex at its end, a failure (and a
\* lastIndex beyond the string) leaves it 0
execName(name, before) ==
    LET hits == {p \in (before + 1)..Len(name) : nameMatchAt(name, p) # << >>}
    IN  IF hits = {} THEN [found |-> FALSE, lastIndex |-> 0]
        ELSE LET p  == CHOOSE q \in hits : \A r \in hits : q <= r
                 m  == nameMatchAt(name, p)
                 at == (p - 1) + m[1] + m[2] + m[3] + 1
                 g3 == RunLen(Drop(name, at), WordChars)
             IN  [found |-> TRUE,
                  first |-> SubSeq(name, p, p + m[1] - 1),
                  last |-> SubSeq(name, at + 1, at + g3),
                  lastIndex |-> at + g3]

\* ProfessorMappings.find(ent => ent.name === name)
FindProfessor(name) ==
    LET hits == {i \in DOMAIN ProfessorMappings : ProfessorMappings[i].name = name}
    IN  IF hits = {} THEN NoMapping
        ELSE ProfessorMappings[CHOOSE i \in hits : \A j \in hits : i <= j]

\* searchProfessors from its first line to its await or return, in a module
\* whose pattern has the lastIndex given
searchProfessorsEntry(name, deep, before) ==
    LET match     == execName(name, before)
        professor == FindProfessor(name)
    IN  IF ~match.found THEN Return(NULL, NoLoc, 0)
        ELSE IF professor = NoMapping THEN Return(NULL, NoLoc, 0)
        ELSE IF ~deep THEN Return(professor, NoLoc, 0)
        ELSE Await("directory",
                   [kind |-> "directory", firstname |-> match.first,
                    lastname |-> match.last],
                   NoLoc, 0)

\* axios.post(...).then(res => cheerio.load(res.data)).catch(_ => null)
postDirectory(http) == IF httpFailed(http) THEN NULL ELSE http.data

\* searchProfessors after its await: table[1] is undefined when the page has
\* no data entry table
searchProfessorsAfterDirectory(name, page) ==
    LET professor == FindProfessor(name)
    IN  IF page = NULL THEN Return(professor, NoLoc, 0)
        ELSE IF ~page.table THEN Throw(NoLoc, 0)
        ELSE Return([kind |-> "professor", name |-> professor.name,
                     status |-> page.status, title |-> page.title,
                     department |-> page.department,
                     building |-> page.building, mailBox |-> page.mailBox,
                     email |-> professor.email, phone |-> page.phone],
                    NoLoc, 0)

(***************************************************************************)
(* The calls and the answers.                                              *)
(***************************************************************************)
SEC_01l == <<"0","1","l">>
SEC_002 == <<"0","0","2">>
SEC_009 == <<"0","0","9">>
SectionCodes == {SEC_01l, SEC_002, SEC_009}

Includes == SUBSET DEFAULT_SEARCH_PARTS

Init ==
    /\ op = "none"
    /\ pc = "idle"
    /\ args = NoArgs
    /\ loc = NoLoc
    /\ requests = << >>
    /\ lookups = 0
    /\ outstanding = 0
    /\ answers = << >>
    /\ failed = {}
    /\ outcome = "pending"
    /\ result = NULL
    /\ courseResult = NoCourse
    /\ lastIndex = 0
    /\ earlier = NoEarlier
    /\ disk = NoDisk
    /\ gen = NoGen

\* searchBySection on the value its await searchCourse(identifier, 'any') gave
bySection(step, section) ==
    IF step.outcome # "returned" THEN step
    ELSE [step EXCEPT !.value = IF step.value = NULL THEN NULL
                                 ELSE sectionPayload(step.value, section)]

\* the call o with arguments a runs the step; `answer` is "none" for the step
\* from the call, and else tells how the request it awaited ended, with the
\* data it resolved to
Settle(o, a, step, answer, data) ==
    LET final == IF o = "searchBySection" THEN bySection(step, a.section)
                 ELSE step
    IN  /\ op' = o
        /\ args' = a
        /\ pc' = final.pc
        /\ loc' = final.loc
        /\ requests' = requests \o final.reqs
        /\ lookups' = lookups + final.look
        /\ outstanding' = (outstanding - IF answer = "none" THEN 0 ELSE 1)
                               + Len(final.reqs)
        /\ answers' = IF answer = "none" THEN answers ELSE Append(answers, data)
        /\ failed' = IF answer = "failed" THEN failed \cup {Len(requests)}
                      ELSE failed
        /\ outcome' = final.outcome
        /\ result' = final.value
        /\ courseResult' =
               IF o = "searchBySection" /\ step.pc = "done"
               THEN [outcome |-> step.outcome, value |-> step.value]
               ELSE courseResult

\* searchCourse(identifier, campus, useMappings, include), called in the
\* variant of the module and at the date given
searchCourse(identifier, campus, useMappings, include, variant, year, quarter, now) ==
    LET a == [NoArgs EXCEPT !.identifier = identifier, !.campus = campus,
                            !.useMappings = useMappings,
                            !.include = include, !.variant = variant,
                            !.year = year, !.quarter = quarter,
                            !.now = now]
    IN  /\ Settle("searchCourse", a,
                  courseEntry(identifier, campus, useMappings, include, now),
                  "none", NULL)
        /\ UNCHANGED <<lastIndex, earlier, disk, gen>>

Call_searchCourse ==
    /\ pc = "idle"
    /\ \E identifier \in Identifiers, campus \in Campuses,
          useMappings \in BOOLEAN, include \in Includes,
          variant \in Variants, year \in Years, quarter \in Quarters,
          now \in Dates :
          searchCourse(identifier, campus, useMappings, include, variant, year,
                       quarter, now)

Call_searchBySection ==
    /\ pc = "idle"
    /\ \E identifier \in Identifiers, section \in SectionCodes,
          variant \in Variants, year \in Years, quarter \in Quarters,
          now \in Dates :
          LET a == [NoArgs EXCEPT !.identifier = identifier, !.section = section,
                                  !.include = DEFAULT_SEARCH_PARTS,
                                  !.variant = variant, !.year = year,
                                  !.quarter = quarter, !.now = now]
          IN  Settle("searchBySection", a,
                     courseEntry(identifier, C_any, FALSE, DEFAULT_SEARCH_PARTS, now),
                     "none", NULL)
    /\ UNCHANGED <<lastIndex, earlier, disk, gen>>

\* searchRMP from its first line to its await or return
rmpEntry(instructor, campus, variant) ==
    IF variant = "graphql"
    THEN Await("ratings",
               [kind |-> "ratings", text |-> instructor, schoolID |-> campus],
               NoLoc, 0)
    ELSE LET local == searchRMPLocal(instructor)
         IN  IF local.kind = "value" THEN Return(local.value, NoLoc, 0)
             ELSE Await("ratings",
                        [kind |-> "ratings", text |-> instructor,
                         schoolID |-> SCHOOL_RMP_ID],
                        NoLoc, 0)

Call_searchRMP ==
    /\ pc = "idle"
    /\ \E instructor \in Instructors,
          campus \in {RmpCampusIds.KENT, RmpCampusIds.STARK},
          variant \in Variants :
          LET a == [NoArgs EXCEPT !.instructor = instructor,
                                  !.rmpCampus = campus, !.variant = variant]
          IN  Settle("searchRMP", a, rmpEntry(instructor, campus, variant), "none",
                     NULL)
    /\ UNCHANGED <<lastIndex, earlier, disk, gen>>

Call_getRmpReport ==
    /\ pc = "idle"
    /\ \E id \in ReportIds :
          Settle("getRmpReport", [NoArgs EXCEPT !.id = id],
                 Await("report", [kind |-> "report", id |-> id], NoLoc, 0),
                 "none", NULL)
    /\ UNCHANGED <<lastIndex, earlier, disk, gen>>

\* how a request ended, as the histories record it
Answer(http) == IF httpFailed(http) THEN "failed" ELSE "answered"

\* the answer to getCatalogUrl's GET
catalogAnswered(http) ==
    /\ Settle(op, args, courseAfterCatalog(loc, getCatalogUrl(http), args),
              Answer(http), getCatalogUrl(http))
    /\ UNCHANGED <<lastIndex, earlier, disk, gen>>

CatalogResponse ==
    /\ pc = "catalog"
    /\ \E http \in HttpOutcomes(CatalogBodies) : catalogAnswered(http)

\* the answer to getCatalogSections' POST
\* String.prototype.replace with a global pattern starts by setting the
\* pattern's lastIndex to 0 and leaves it 0: the GraphQL variant does so for
\* every section row it reads
lastIndexAfterSections(sectionDataTable, variant, before) ==
    IF /\ variant = "graphql"
       /\ ~cheerioLoadThrows(sectionDataTable)
       /\ Len(sectionDataTable.table) > 2
       /\ \E i \in DOMAIN sectionDataTable.table :
              COURSE_SEPARATOR(sectionDataTable.table[i].c0)
    THEN 0
    ELSE before

sectionsAnswered(http) ==
    /\ Settle(op, args, courseAfterSections(loc, getCatalogSections(http), args),
              Answer(http), getCatalogSections(http))
    /\ lastIndex' = lastIndexAfterSections(getCatalogSections(http), args.variant,
                                           lastIndex)
    /\ UNCHANGED <<earlier, disk, gen>>

SectionsResponse ==
    /\ pc = "sections"
    /\ \E http \in HttpOutcomes(SectionBodies) : sectionsAnswered(http)

\* the answer to searchRMP's POST
ratingsAnswered(http) ==
    /\ IF op = "searchRMP"
       THEN Settle(op, args,
                   Return(searchRMPResult(args.instructor, postGraphql(http)),
                          loc, 0),
                   Answer(http), postGraphql(http))
       ELSE Settle(op, args,
                   courseAfterRatings(
                       loc, searchRMPResult(profAt(loc), postGraphql(http)), args),
                   Answer(http), postGraphql(http))
    /\ UNCHANGED <<lastIndex, earlier, disk, gen>>

RatingsResponse ==
    /\ pc = "ratings"
    /\ \E http \in HttpOutcomes(RatingsBodies) : ratingsAnswered(http)

Call_searchProfessors ==
    /\ pc = "idle"
    /\ \E name \in ProfessorNames, deep \in BOOLEAN :
          /\ Settle("searchProfessors",
                    [NoArgs EXCEPT !.name = name, !.deep = deep],
                    searchProfessorsEntry(name, deep, lastIndex), "none", NULL)
          /\ lastIndex' = execName(name, lastIndex).lastIndex
    /\ UNCHANGED <<earlier, disk, gen>>

\* the answer to searchProfessors' POST
DirectoryResponse ==
    /\ pc = "directory"
    /\ \E http \in HttpOutcomes(DirectoryBodies) :
          Settle(op, args,
                 searchProfessorsAfterDirectory(args.name, postDirectory(http)),
                 Answer(http), postDirectory(http))
    /\ UNCHANGED <<lastIndex, earlier, disk, gen>>

\* the answer to getRmpReport's POST
ReportResponse ==
    /\ pc = "report"
    /\ \E http \in HttpOutcomes(ReportBodies(args.id)) :
          LET report == getRmpReportResult(postGraphql(http))
          IN  Settle(op, args,
                     IF report.threw THEN Throw(loc, 0)
                     ELSE Return(report.value, loc, 0),
                     Answer(http), postGraphql(http))
    /\ UNCHANGED <<lastIndex, earlier, disk, gen>>

\* the caller takes the settled promise; the module is ready for the next call
Finish ==
    /\ pc = "done"
    /\ op' = "none"
    /\ pc' = "idle"
    /\ args' = NoArgs
    /\ loc' = NoLoc
    /\ requests' = << >>
    /\ lookups' = 0
    /\ outstanding' = 0
    /\ answers' = << >>
    /\ failed' = {}
    /\ outcome' = "pending"
    /\ result' = NULL
    /\ courseResult' = NoCourse
    /\ UNCHANGED <<lastIndex, earlier, disk, gen>>

Next ==
    \/ Call_searchCourse
    \/ Call_searchBySection
    \/ Call_searchRMP
    \/ Call_getRmpReport
    \/ CatalogResponse
    \/ SectionsResponse
    \/ RatingsResponse
    \/ ReportResponse
    \/ Finish

Spec == Init /\ [][Next]_vars

(***************************************************************************)
(* searchCourse over listings with several sections per instructor and     *)
(* several instructors per section: live calls that ask for sections and   *)
(* professors, for every campus filter and in both variants.               *)
(***************************************************************************)
ListedCampuses == {C_any, C_kent, C_stark, C_east_liverpool}
ListedQuarters == {1, 3}
ListedBodies == {Html(GRID_ONE), Html(GRID_TWO), Html(GRID_MANY)}
ListedIncludes == {DEFAULT_SEARCH_PARTS, {SECTIONS}}
ListedDate == [day |-> 10, hour |-> 12]

Call_searchCourseListed ==
    /\ pc = "idle"
    /\ \E campus \in ListedCampuses, include \in ListedIncludes,
          variant \in Variants, quarter \in ListedQuarters :
          searchCourse(ID_cs1000, campus, FALSE, include, variant, 2023, quarter,
                       ListedDate)

CatalogResponseListed ==
    /\ pc = "catalog"
    /\ \E http \in HttpOutcomes({PAGE_A}) : catalogAnswered(http)

SectionsResponseListed ==
    /\ pc = "sections"
    /\ \E http \in HttpOutcomes(ListedBodies) : sectionsAnswered(http)

RatingsResponseListed ==
    /\ pc = "ratings"
    /\ \E http \in {[kind |-> "error"],
                     [kind |-> "response", status |-> 200,
                      data |-> [kind |-> "json", ids |-> <<"VGVhY2hlci05">>]]} :
          ratingsAnswered(http)

NextListed ==
    \/ Call_searchCourseListed
    \/ CatalogResponseListed
    \/ SectionsResponseListed
    \/ RatingsResponseListed
    \/ Finish

SpecListed == Init /\ [][NextListed]_vars

(***************************************************************************)
(* searchCourse called again: the caller keeps a course it got and calls   *)
(* again later, at another date, with other calls in between.              *)
(***************************************************************************)
TwiceQuarters == {1, 3, 4}
TwiceBodies == {Html(GRID_ONE), Html(GRID_TWO)}

Call_searchCourseTwice ==
    /\ pc = "idle"
    /\ \E variant \in Variants, quarter \in TwiceQuarters, now \in Dates :
          searchCourse(ID_cs1000, C_any, FALSE, DEFAULT_SEARCH_PARTS, variant,
                       2023, quarter, now)

SectionsResponseTwice ==
    /\ pc = "sections"
    /\ \E http \in HttpOutcomes(TwiceBodies) : sectionsAnswered(http)

\* the caller takes the course searchCourse resolved to and keeps it
FinishKept ==
    /\ pc = "done"
    /\ op = "searchCourse"
    /\ outcome = "returned"
    /\ earlier' = [kept |-> TRUE, args |-> args, requests |-> requests,
                   answers |-> answers, result |-> result]
    /\ op' = "none"
    /\ pc' = "idle"
    /\ args' = NoArgs
    /\ loc' = NoLoc
    /\ requests' = << >>
    /\ lookups' = 0
    /\ outstanding' = 0
    /\ answers' = << >>
    /\ failed' = {}
    /\ outcome' = "pending"
    /\ result' = NULL
    /\ courseResult' = NoCourse
    /\ UNCHANGED <<lastIndex, disk, gen>>

NextTwice ==
    \/ Call_searchCourseTwice
    \/ Call_getRmpReport
    \/ CatalogResponseListed
    \/ SectionsResponseTwice
    \/ RatingsResponseListed
    \/ ReportResponse
    \/ Finish
    \/ FinishKept

SpecTwice == Init /\ [][NextTwice]_vars

(***************************************************************************)
(* The exported operations that use the module's constants, called one     *)
(* after the other in any order: the module is loaded once and lastIndex   *)
(* outlives every call.                                                    *)
(***************************************************************************)
Call_searchCourseModule ==
    /\ pc = "idle"
    /\ \E variant \in Variants :
          searchCourse(ID_cs1000, C_any, FALSE, DEFAULT_SEARCH_PARTS, variant,
                       2023, 1, ListedDate)

NextModule ==
    \/ Call_searchProfessors
    \/ Call_searchCourseModule
    \/ Call_searchRMP
    \/ DirectoryResponse
    \/ CatalogResponseListed
    \/ SectionsResponseTwice
    \/ RatingsResponse
    \/ Finish

SpecModule == Init /\ [][NextModule]_vars

(***************************************************************************)
(* searchCourse over catalog pages with every way of naming the            *)
(* prerequisites; the calls ask for no sections.                           *)
(***************************************************************************)
PrereqPages == {PAGE_A, PAGE_B, PAGE_C, PAGE_D, PAGE_E}

Call_searchCoursePrereqs ==
    /\ pc = "idle"
    /\ \E identifier \in {ID_CS1000, ID_cs1000, ID_ENGL1010W},
          campus \in Campuses, include \in {{}, {PROFESSORS}}, now \in Dates :
          searchCourse(identifier, campus, FALSE, include, "graphql", 2023, 1, now)

CatalogResponsePrereqs ==
    /\ pc = "catalog"
    /\ \E http \in HttpOutcomes(PrereqPages) : catalogAnswered(http)

NextPrereqs ==
    \/ Call_searchCoursePrereqs
    \/ CatalogResponsePrereqs
    \/ Finish

SpecPrereqs == Init /\ [][NextPrereqs]_vars

(***************************************************************************)
(* searchCourse over listings of several layouts: sections of more than    *)
(* one row, each further row a meeting place; the dashes after each        *)
(* section, or before each section from the second row on, or the first    *)
(* dashes further down.                                                    *)
(***************************************************************************)
GRID_TRAIL ==
    << HeadRow(<<"S">>), HeadRow(<<"H">>),
       LocRow(<<"3","1">>, CELL_001, LOC_BOW), ContRow(LOC_WEB), ContRow(LOC_LIB),
       SepRow,
       LocRow(<<"3","2">>, CELL_002, LOC_WEB), ContRow(LOC_NOWHERE),
       ContRow(LOC_BOW),
       SepRow >>
GRID_LEAD ==
    << HeadRow(<<"S">>),
       SepRow,
       LocRow(<<"4","1">>, CELL_001, LOC_LIB),
       SepRow,
       LocRow(<<"4","2">>, CELL_002, LOC_WEB), ContRow(LOC_WEB) >>
GRID_LATE ==
    << HeadRow(<<"S">>), HeadRow(<<"H">>), HeadRow(<<"T">>),
       SepRow,
       LocRow(<<"5","1">>, CELL_001, LOC_WIDE), ContRow(LOC_BOW),
       SepRow,
       LocRow(<<"5","2">>, CELL_01L, LOC_BOW) >>

GridBodies == {Html(GRID_ONE), Html(GRID_TRAIL), Html(GRID_LEAD), Html(GRID_LATE)}

Call_searchCourseGrid ==
    /\ pc = "idle"
    /\ \E variant \in Variants, quarter \in ListedQuarters :
          searchCourse(ID_cs1000, C_any, FALSE, {SECTIONS}, variant, 2023, quarter,
                       ListedDate)

SectionsResponseGrid ==
    /\ pc = "sections"
    /\ \E http \in HttpOutcomes(GridBodies) : sectionsAnswered(http)

NextGrid ==
    \/ Call_searchCourseGrid
    \/ CatalogResponseListed
    \/ SectionsResponseGrid
    \/ Finish

SpecGrid == Init /\ [][NextGrid]_vars

(***************************************************************************)
(* tools/mappings.ts, generateCourseMappings: the batch script that        *)
(* crawls the catalog's subject pages and writes courses.json.  It is run  *)
(* again and again in the same directory; Date.now() is the number of the  *)
(* run.                                                                    *)
(***************************************************************************)
GenMaxRuns == 3

U_ACCT == "/coursesaz/acct/"
U_CS == "/coursesaz/cs/"
U_ENG == "/coursesaz/eng/"

\* the hrefs the index page can list
UrlLists == {<< >>, <<U_ACCT>>, <<U_ACCT, U_CS>>, <<U_ACCT, U_CS, U_ENG>>}

\* the course blocks of a subject page, by their names
UrlCourses(url) ==
    IF url = U_ACCT THEN << <<"A","C","C","T","2","3","0","1","0">> >>
    ELSE IF url = U_CS THEN <<ID_CS1000, <<"C","S","1","0","0","1">> >>
    ELSE <<ID_ENGL1010W>>

\* what a subject page request can resolve to: null, the page, or a page with
\* an attribute line without ': ', on which readAttributes throws
SubjectOutcomes(url) ==
    {NULL, [kind |-> "subject", broken |-> FALSE, courses |-> UrlCourses(url)],
     [kind |-> "subject", broken |-> TRUE, courses |-> << >>]}

\* courses.sort((a, b) => a.name.localeCompare(b.name))
RECURSIVE insertName(_, _)
insertName(sorted, x) ==
    IF sorted = << >> THEN <<x>>
    ELSE IF localeBefore(x, sorted[Len(sorted)])
         THEN Append(insertName(Take(sorted, Len(sorted) - 1), x),
                     sorted[Len(sorted)])
         ELSE Append(sorted, x)
RECURSIVE sortNames(_)
sortNames(list) ==
    IF list = << >> THEN << >>
    ELSE insertName(sortNames(Take(list, Len(list) - 1)), list[Len(list)])

\* a script that keeps no copy
genBackup_none(d, date) == d

\* if (fs.existsSync('./courses.json'))
\*     fs.copyFileSync('./courses.json', `./courses-${date}.json`)
genBackup(d, date) ==
    IF d.courses.exists
    THEN [d EXCEPT !.backups = @ \cup {[date |-> date, content |-> d.courses]}]
    ELSE d

\* the head of for (let i = 1; i < urls.length; i++): the next subject page
\* request, or after the loop fs.writeFileSync('./courses.json', ...)
genLoop(g, d) ==
    IF g.i < Len(g.urls)
    THEN [gen |-> [g EXCEPT !.pc = "subject",
                            !.requested = Append(@, g.urls[g.i + 1])],
          disk |-> d]
    ELSE [gen |-> [g EXCEPT !.pc = "done", !.outcome = "returned",
                            !.wrote = TRUE],
          disk |-> [d EXCEPT !.courses = [exists |-> TRUE,
                                          courses |-> sortNames(g.courses)]]]

\* the script after the index page was answered
genAfterIndex(g, d, page) ==
    IF page = NULL
    THEN [gen |-> [g EXCEPT !.pc = "done", !.outcome = "returned"], disk |-> d]
    ELSE genLoop([g EXCEPT !.urls = page.urls, !.i = 1], genBackup(d, g.run))

\* the script after a subject page was answered
genAfterSubject(g, d, page) ==
    IF page = NULL THEN genLoop([g EXCEPT !.i = @ + 1], d)
    ELSE IF page.broken
    THEN [gen |-> [g EXCEPT !.pc = "done", !.outcome = "threw"], disk |-> d]
    ELSE genLoop([g EXCEPT !.courses = @ \o page.courses, !.i = @ + 1], d)

\* the script is started: it requests the index page
Gen_Start ==
    /\ gen.pc \in {"idle", "done"}
    /\ gen.run < GenMaxRuns
    /\ gen' = [NoGen EXCEPT !.pc = "index", !.run = gen.run + 1]
    /\ UNCHANGED <<disk, callVars>>

Gen_IndexResponse ==
    /\ gen.pc = "index"
    /\ \E page \in {NULL} \cup {[kind |-> "index", urls |-> u] : u \in UrlLists} :
          LET next == genAfterIndex(gen, disk, page)
          IN  gen' = next.gen /\ disk' = next.disk
    /\ UNCHANGED callVars

Gen_SubjectResponse ==
    /\ gen.pc = "subject"
    /\ \E page \in SubjectOutcomes(gen.requested[Len(gen.requested)]) :
          LET next == genAfterSubject(gen, disk, page)
          IN  gen' = next.gen /\ disk' = next.disk
    /\ UNCHANGED callVars

NextMappings ==
    \/ Gen_Start
    \/ Gen_IndexResponse
    \/ Gen_SubjectResponse

SpecMappings == Init /\ [][NextMappings]_vars

(***************************************************************************)
(* The synchronous helpers the module exports, called on their own.        *)
(***************************************************************************)
\* a boolean a call returned
Bool(b) == [kind |-> "boolean", value |-> b]

\* the strings callers pass to isCampusType: every beginning of a campus
\* name (the name itself included), and of the misspelt one, in lower case,
\* in upper case and with a capital
CampusInputs ==
    UNION {{Take(w, n), toUpperCase(Take(w, n)),
            toUpperCase(Take(w, 1)) \o Drop(Take(w, n), 1)} :
              w \in CampusType \cup {C_guaga}, n \in 0..14}

Call_isCampusType ==
    /\ pc = "idle"
    /\ \E input \in CampusInputs :
          Settle("isCampusType", [NoArgs EXCEPT !.campus = input],
                 Return(Bool(isCampusType(input)), NoLoc, 0), "none", NULL)
    /\ UNCHANGED <<lastIndex, earlier, disk, gen>>

\* a string a call returned
Str(v) == [kind |-> "string", value |-> v]

\* the campus names detectCampusNameByAbbreviation gives to sections
CampusNames ==
    {Kent, EastLiverpool, Trumbull, Tuscarawas, Stark, Geauga, Ashtabula, Salem}

Call_detectRMPCampusId ==
    /\ pc = "idle"
    /\ \E abbreviation \in CampusNames \cup {Unknown} :
          Settle("detectRMPCampusId", [NoArgs EXCEPT !.campus = abbreviation],
                 Return(Str(detectRMPCampusId(abbreviation)), NoLoc, 0), "none",
                 NULL)
    /\ UNCHANGED <<lastIndex, earlier, disk, gen>>

NextHelpers ==
    \/ Call_isCampusType
    \/ Call_detectRMPCampusId
    \/ Finish

SpecHelpers == Init /\ [][NextHelpers]_vars

(***************************************************************************)
(* searchCourse over every spelling of an identifier: all strings of a     *)
(* lower-case letter, an upper-case letter that is also a qualifier, and a *)
(* digit, up to the longest accepted length, and the identifiers the       *)
(* documentation names.                                                    *)
(***************************************************************************)
SpelledMaxLen == 10
SpelledChars == {"c", "W", "1"}
SpelledIdentifiers ==
    UNION {[1..n -> SpelledChars] : n \in 0..SpelledMaxLen}
        \cup Identifiers \cup {ID_TOO5LONG12345, ID_CS1000WW, ID_CS1000QEW}

Call_searchCourseSpelled ==
    /\ pc = "idle"
    /\ \E identifier \in SpelledIdentifiers :
          searchCourse(identifier, C_any, FALSE, {}, "graphql", 2023, 1,
                       ListedDate)

NextSpelled ==
    \/ Call_searchCourseSpelled
    \/ CatalogResponseListed
    \/ Finish

SpecSpelled == Init /\ [][NextSpelled]_vars

(***************************************************************************)
(* The claims.                                                             *)
(***************************************************************************)
\* the requests of the call that are of one of the kinds
RequestsOf(kinds) == {i \in DOMAIN requests : requests[i].kind \in kinds}

\* C1: searchCourse called with an identifier that does not match
\* COURSE_IDENTIFIER returns null, issues no HTTP request (catalog, section
\* listing or ratings) and makes no mapping lookup, whatever campus,
\* useMappings and include are.
C1_InvalidIdentifierReturnsNull ==
    (op = "searchCourse" /\ ~COURSE_IDENTIFIER(args.identifier))
        => /\ pc = "done"
           /\ outcome = "returned"
           /\ result = NULL
           /\ requests = << >>
           /\ outstanding = 0
           /\ lookups = 0

\* an invalid identifier was passed with the mappings on and every part asked for
C1_Witness ==
    /\ op = "searchCourse"
    /\ pc = "done"
    /\ ~COURSE_IDENTIFIER(args.identifier)
    /\ args.useMappings
    /\ args.include = DEFAULT_SEARCH_PARTS
    /\ args.campus # C_any

\* C2: when the catalog metadata request fails (network error or non-success
\* status) getCatalogUrl resolves to null instead of throwing, and
\* searchCourse returns null without issuing a section-listing or ratings
\* request.
C2_CatalogFailureReturnsNull ==
    /\ \A http \in HttpOutcomes(CatalogBodies) :
           httpFailed(http) => getCatalogUrl(http) = NULL
    /\ (op = "searchCourse" /\ 1 \in failed /\ requests[1].kind = "catalog")
           => /\ pc = "done"
              /\ outcome = "returned"
              /\ result = NULL
              /\ RequestsOf({"sections", "ratings"}) = {}

\* the catalog request of a call that asked for sections and professors failed
C2_Witness ==
    /\ op = "searchCourse"
    /\ pc = "done"
    /\ 1 \in failed
    /\ requests[1].kind = "catalog"
    /\ args.include = DEFAULT_SEARCH_PARTS
    /\ ~args.useMappings

\* C3: when the section-listing request for a term code fails, searchCourse
\* does not throw: it completes and returns a course record that holds no
\* section for that term.
C3_SectionFailureTolerated ==
    (op = "searchCourse" /\ pc = "done"
        /\ \E i \in failed : requests[i].kind = "sections")
        => /\ outcome = "returned"
           /\ result # NULL
           /\ \A i \in failed : \A j \in DOMAIN result.sections :
                  requests[i].kind = "sections"
                      => result.sections[j].internal.termCode # requests[i].term_in

\* C4: with useMappings = true searchCourse never returns section or
\* professor data: for every valid identifier, in the table or not, a non-null
\* result has sections = [] and professors = [], whatever include was passed.
C4_MappingModeHasNoSections ==
    (op = "searchCourse" /\ pc = "done" /\ args.useMappings
        /\ COURSE_IDENTIFIER(args.identifier)
        /\ outcome = "returned" /\ result # NULL)
        => /\ result.sections = << >>
           /\ result.professors = << >>
           /\ RequestsOf({"sections", "ratings"}) = {}

\* the call fell back to the live catalog with sections and professors asked for
C4_Witness ==
    /\ op = "searchCourse"
    /\ pc = "done"
    /\ args.useMappings
    /\ args.include = DEFAULT_SEARCH_PARTS
    /\ outcome = "returned"
    /\ result # NULL
    /\ RequestsOf({"catalog"}) # {}
    /\ result.sections = << >>

\* the identifier is the name of an entry of the bundled course table
InCourseMappings(identifier) ==
    \E i \in DOMAIN CourseMappings : CourseMappings[i].name = identifier

\* C5: with useMappings = true and an identifier present in the bundled
\* course table, searchCourse returns the mapped record without issuing any
\* HTTP request; the live catalog request is issued only when the identifier
\* is absent from the table.
C5_MappedWithoutRequest ==
    (op = "searchCourse" /\ args.useMappings /\ COURSE_IDENTIFIER(args.identifier))
        => /\ InCourseMappings(args.identifier)
               => /\ pc = "done"
                  /\ outcome = "returned"
                  /\ requests = << >>
                  /\ \E i \in DOMAIN CourseMappings :
                        /\ CourseMappings[i].name = args.identifier
                        /\ result.name = CourseMappings[i].name
                        /\ result.grading = CourseMappings[i].grading
                        /\ result.credits = NumToString(CourseMappings[i].credits)
                        /\ result.prereqs = CourseMappings[i].prerequisites
                        /\ result.description = CourseMappings[i].description
           /\ requests # << >> => ~InCourseMappings(args.identifier)

\* a call with the mappings on found its identifier in the table
C5_Witness ==
    /\ op = "searchCourse"
    /\ pc = "done"
    /\ args.useMappings
    /\ InCourseMappings(args.identifier)
    /\ lookups = 1
    /\ result # NULL
    /\ result.name = args.identifier

\* C6: if include does not contain SearchParts.SECTIONS, searchCourse returns
\* sections = [] and professors = [] even when include contains
\* SearchParts.PROFESSORS, and issues neither a section-listing request nor a
\* ratings request.
C6_NoSectionsNoProfessors ==
    (op = "searchCourse" /\ SECTIONS \notin args.include)
        => /\ RequestsOf({"sections", "ratings"}) = {}
           /\ (pc = "done" /\ outcome = "returned" /\ result # NULL)
                  => /\ result.sections = << >>
                     /\ result.professors = << >>

\* a live call that asked for professors only returned a course
C6_Witness ==
    /\ op = "searchCourse"
    /\ pc = "done"
    /\ ~args.useMappings
    /\ args.include = {PROFESSORS}
    /\ outcome = "returned"
    /\ result # NULL
    /\ result.professors = << >>

\* C7: searchRMP never throws and never returns null: for every instructor
\* name it resolves to a record with a name and a list of zero or more
\* identifiers, and when the ratings request fails the record is the input
\* name with an empty identifier list.
C7_SearchRMPNeverNull ==
    (op = "searchRMP" /\ pc = "done")
        => /\ outcome = "returned"
           /\ result # NULL
           /\ result.kind = "rmp"
           /\ failed # {} => result = Rmp(args.instructor, << >>)

\* the table has a case-insensitive exact match for the name
ExactInRmpIds(instructor) ==
    \E i \in DOMAIN RmpIds : toLowerCase(RmpIds[i].name) = toLowerCase(instructor)

\* the entries of the table whose similarity to the name exceeds 0.70
OverThreshold(instructor) ==
    {i \in DOMAIN RmpIds :
        aboveThreshold(compareTwoStrings(instructor, RmpIds[i].name))}

\* C8: in the fuzzy-match variant of searchRMP, when the table has no
\* case-insensitive exact match for a non-blank instructor name and no entry
\* whose similarity exceeds 0.70, the live ratings query is issued; when an
\* entry exceeds 0.70 no live query is issued and the most similar entry's
\* identifiers are returned.
C8_FuzzyFallsBackToLiveQuery ==
    (op = "searchRMP" /\ args.variant = "fuzzy" /\ ~ExactInRmpIds(args.instructor))
        => /\ (trim(args.instructor) # << >> /\ OverThreshold(args.instructor) = {})
                  => RequestsOf({"ratings"}) # {}
           /\ OverThreshold(args.instructor) # {}
                  => /\ requests = << >>
                     /\ pc = "done"
                     /\ outcome = "returned"
                     /\ \E i \in OverThreshold(args.instructor) :
                           /\ \A j \in DOMAIN RmpIds :
                                 ~FracGreater(
                                     compareTwoStrings(args.instructor, RmpIds[j].name),
                                     compareTwoStrings(args.instructor, RmpIds[i].name))
                           /\ result.rmpIds = RmpIds[i].rmpIds

\* C9: for every identifier getRmpReport resolves either to a complete
\* rating report or to null; whenever the report cannot be obtained it
\* returns null and never throws.
C9_ReportOrNull ==
    (op = "getRmpReport" /\ pc = "done")
        => /\ outcome = "returned"
           /\ result = NULL \/ result.kind = "report"
           /\ failed # {} => result = NULL

\* the sections of a course whose code equals the section ignoring case
SectionHits(res, section) ==
    {i \in DOMAIN res.sections :
        toLowerCase(res.sections[i].section) = toLowerCase(section)}

\* C10: searchBySection(identifier, section) returns null when searchCourse
\* returns null or when no section of the course has a code equal to
\* `section` ignoring case; otherwise it returns the course's name, grading,
\* credits, prereqs, lastDataMarker and description unchanged, with the first
\* section of the course's list whose code equals `section` ignoring case.
C10_SectionOfCourse ==
    (op = "searchBySection" /\ pc = "done" /\ courseResult.outcome = "returned")
        => /\ outcome = "returned"
           /\ courseResult.value = NULL => result = NULL
           /\ courseResult.value # NULL
                  => LET res  == courseResult.value
                         hits == SectionHits(res, args.section)
                     IN  IF hits = {} THEN result = NULL
                         ELSE /\ result # NULL
                              /\ result.name = res.name
                              /\ result.grading = res.grading
                              /\ result.credits = res.credits
                              /\ result.prereqs = res.prereqs
                              /\ result.lastDataMarker = res.lastDataMarker
                              /\ result.description = res.description
                              /\ \E i \in hits :
                                    /\ \A j \in hits : i <= j
                                    /\ result.section = res.sections[i]

\* a section was found under a code written in another case, in a course
\* that lists the code twice
C10_Witness ==
    /\ op = "searchBySection"
    /\ pc = "done"
    /\ outcome = "returned"
    /\ result # NULL
    /\ result.section.section # args.section
    /\ Cardinality(SectionHits(courseResult.value, args.section)) > 1

\* the rows of the listings a call was answered with that a section record
\* was read from: same class number, same term as the request
RowsOf(section) ==
    {row \in UNION {Range(answers[i].table) :
                      i \in {j \in DOMAIN answers :
                               /\ answers[j].kind = "html"
                               /\ requests[j].kind = "sections"
                               /\ requests[j].term_in = section.internal.termCode}} :
        /\ ~COURSE_SEPARATOR(row.c0)
        /\ row.c3 = section.internal.classNumber}

\* C11: every section record produced by searchCourse satisfies
\* enrollment.max = enrollment.current + remaining-open (the two counts read
\* from the grid), and enrollment.full is true if and only if remaining-open
\* is 0.
C11_EnrollmentSums ==
    (op = "searchCourse" /\ pc = "done" /\ outcome = "returned" /\ result # NULL)
        => \A i \in DOMAIN result.sections :
              LET section == result.sections[i]
              IN  /\ RowsOf(section) # {}
                  /\ \A row \in RowsOf(section) :
                        /\ section.enrollment.current = Number(row.c8)
                        /\ section.enrollment.max = Number(row.c8) + Number(row.c9)
                        /\ section.enrollment.full <=> (Number(row.c9) = 0)

\* a course came back with a full section and one with seats left
C11_Witness ==
    /\ op = "searchCourse"
    /\ pc = "done"
    /\ outcome = "returned"
    /\ result # NULL
    /\ \E i, j \in DOMAIN result.sections :
          /\ result.sections[i].enrollment.full
          /\ result.sections[i].enrollment.max = 3
          /\ ~result.sections[j].enrollment.full
          /\ result.sections[j].enrollment.max = 12

\* a finished searchCourse call that returned a course
CourseReturned ==
    /\ op = "searchCourse"
    /\ pc = "done"
    /\ outcome = "returned"
    /\ result # NULL

\* the codes of a list of sections never step down
AscendingCodes(list) ==
    \A i, j \in DOMAIN list :
        i < j => ~localeBefore(list[j].section, list[i].section)

\* C12: for every professor P in a searchCourse result, P.sections is a
\* subset of the result's sections list, every section in it has an
\* instructor string equal to P.name, and it is sorted in ascending order of
\* section code.
C12_ProfessorSectionsByName ==
    CourseReturned
        => \A p \in DOMAIN result.professors :
              LET P == result.professors[p]
              IN  /\ Range(P.sections) \subseteq Range(result.sections)
                  /\ \A i \in DOMAIN P.sections :
                        P.sections[i].instructor = P.name
                  /\ AscendingCodes(P.sections)

\* C13: for every professor P in a searchCourse result, P.sections contains
\* every section the professor teaches: every section of the result whose
\* instructor field, split on ', ', includes P.name is in P.sections,
\* including co-taught sections and sections parsed in any of the term-code
\* passes.
C13_ProfessorSectionsComplete ==
    CourseReturned
        => \A p \in DOMAIN result.professors :
              LET P == result.professors[p]
              IN  \A i \in DOMAIN result.sections :
                     P.name \in Range(split(result.sections[i].instructor,
                                            COMMA_SPACE))
                         => result.sections[i] \in Range(P.sections)

\* the sections of the result that name the professor among their instructors
NamedIn(name) ==
    {i \in DOMAIN result.sections :
        name \in Range(split(result.sections[i].instructor, COMMA_SPACE))}

\* C14: after any searchCourse call, no two entries of the result's
\* professors list have the same name, even when a professor teaches several
\* sections or appears in the sections of more than one term-code pass.
C14_ProfessorNamesDistinct ==
    CourseReturned
        => \A i, j \in DOMAIN result.professors :
              i # j => result.professors[i].name # result.professors[j].name

\* a professor of the result is named in sections of two terms, and another
\* in several sections of one term
C14_Witness ==
    /\ CourseReturned
    /\ \E p \in DOMAIN result.professors :
          \E i, j \in NamedIn(result.professors[p].name) :
              result.sections[i].internal.termCode
                  # result.sections[j].internal.termCode
    /\ \E p \in DOMAIN result.professors :
          \E i, j \in NamedIn(result.professors[p].name) :
              /\ i # j
              /\ result.sections[i].internal.termCode
                    = result.sections[j].internal.termCode

\* the section rows of a listing, in order, as the term, class number and
\* campus name each stands for
RowKeys(table, termCode) ==
    LET at == SelectSeq([k \in 1..Len(table) |-> k],
                        LAMBDA k : k > 2 /\ ~COURSE_SEPARATOR(table[k].c0))
    IN  [k \in DOMAIN at |->
            [termCode |-> termCode, classNumber |-> table[at[k]].c3,
             campus |-> detectCampusNameByAbbreviation(table[at[k]].c20)]]

\* the section rows of the listings the first n requests were answered with
RECURSIVE ParsedKeys(_)
ParsedKeys(n) ==
    IF n = 0 THEN << >>
    ELSE ParsedKeys(n - 1)
            \o (IF requests[n].kind = "sections" /\ answers[n].kind = "html"
                THEN RowKeys(answers[n].table, requests[n].term_in)
                ELSE << >>)

\* the campus name, every space an underscore, is the campus asked for up to
\* case
OnCampus(name, campus) ==
    toLowerCase([i \in DOMAIN name |-> IF name[i] = " " THEN "_" ELSE name[i]])
        = toLowerCase(campus)

\* C15: when campus is not 'any', the sections returned by searchCourse are
\* exactly the parsed sections (of all term-code passes) whose campus name,
\* with spaces replaced by underscores and compared case-insensitively,
\* equals the requested campus: no section of another campus is kept and no
\* section of the requested campus is lost.
C15_CampusFilterExact ==
    (CourseReturned /\ args.campus # C_any)
        => [i \in DOMAIN result.sections |->
               [termCode |-> result.sections[i].internal.termCode,
                classNumber |-> result.sections[i].internal.classNumber,
                campus |-> result.sections[i].campus]]
           = SelectSeq(ParsedKeys(Len(answers)),
                       LAMBDA k : OnCampus(k.campus, args.campus))

\* a call for East Liverpool kept sections of two term passes and dropped
\* sections of other campuses
C15_Witness ==
    /\ CourseReturned
    /\ args.campus = C_east_liverpool
    /\ \E i, j \in DOMAIN result.sections :
          result.sections[i].internal.termCode
              # result.sections[j].internal.termCode
    /\ Len(ParsedKeys(Len(answers))) > Len(result.sections)

\* 2 to 4 letters, then 3 to 5 digits, then at most one qualifier letter
WellShaped(s) ==
    \E l \in 2..4, d \in 3..5, q \in 0..1 :
        /\ Len(s) = l + d + q
        /\ \A i \in 1..l : s[i] \in LetterChars
        /\ \A i \in (l + 1)..(l + d) : s[i] \in DigitChars
        /\ q = 1 => IsQEW(s[Len(s)])

\* digits before the letters, fewer than 3 digits, more than 4 leading
\* letters, or a letter between digits
IllShaped(s) ==
    \/ s # << >> /\ s[1] \in DigitChars
    \/ Cardinality({i \in DOMAIN s : s[i] \in DigitChars}) < 3
    \/ Len(s) > 4 /\ \A i \in 1..5 : s[i] \in LetterChars
    \/ \E i, j, k \in DOMAIN s :
          /\ i < j /\ j < k
          /\ s[i] \in DigitChars /\ s[j] \in LetterChars /\ s[k] \in DigitChars

\* searchCourse returned null at its first line
RejectedAtOnce ==
    /\ pc = "done"
    /\ outcome = "returned"
    /\ result = NULL
    /\ requests = << >>

\* C16: COURSE_IDENTIFIER accepts every string made of 2 to 4 letters
\* (either case) followed by 3 to 5 digits and an optional qualifier letter
\* (such as CS1000 and ENGL1010W), and rejects strings whose digits precede
\* the letters, that have fewer than 3 digits, or that have more than 4
\* leading letters or letters between digits (such as 1000CS, cs10,
\* TOO5LONG12345).
C16_IdentifierShapes ==
    op = "searchCourse"
        => /\ WellShaped(args.identifier)
                 => /\ requests # << >>
                    /\ requests[1].kind = "catalog"
           /\ IllShaped(args.identifier) => RejectedAtOnce

\* the catalog was asked about an identifier of the longest accepted shape,
\* in both cases and with a qualifier
C16_Witness ==
    /\ op = "searchCourse"
    /\ pc = "catalog"
    /\ WellShaped(args.identifier)
    /\ Len(args.identifier) = SpelledMaxLen
    /\ args.identifier[1] = "c"
    /\ args.identifier[2] = "W"
    /\ IsQEW(args.identifier[SpelledMaxLen])

\* letters, then digits, then two or more qualifier letters
ManyQualifiers(s) ==
    \E l \in 2..4, d \in 3..5 :
        /\ Len(s) >= l + d + 2
        /\ \A i \in 1..l : s[i] \in LetterChars
        /\ \A i \in (l + 1)..(l + d) : s[i] \in DigitChars
        /\ \A i \in (l + d + 1)..Len(s) : IsQEW(s[i])

\* C17: the course identifier validator allows at most one qualifier letter
\* after the digits: an identifier with two or more trailing qualifier
\* letters (for example CS1000WW or CS1000QEW) is rejected and searchCourse
\* returns null for it.
C17_AtMostOneQualifier ==
    (op = "searchCourse" /\ ManyQualifiers(args.identifier)) => RejectedAtOnce

\* the call that just finished had the arguments of the kept one and was
\* answered as the kept one was
SameCall ==
    /\ earlier.kept
    /\ op = "searchCourse"
    /\ pc = "done"
    /\ outcome = "returned"
    /\ args.identifier = earlier.args.identifier
    /\ args.campus = earlier.args.campus
    /\ args.useMappings = earlier.args.useMappings
    /\ args.include = earlier.args.include
    /\ args.variant = earlier.args.variant
    /\ answers = earlier.answers

\* both calls asked for the listings of the same terms
SameTerms ==
    \A i \in DOMAIN requests :
        requests[i].kind = "sections" => requests[i] = earlier.requests[i]

\* two results are equal in every field but lastDataMarker
EqualButMarker(a, b) ==
    IF a = NULL \/ b = NULL THEN a = b
    ELSE [a EXCEPT !.lastDataMarker = NULL] = [b EXCEPT !.lastDataMarker = NULL]

\* C18 as stated: searchCourse is deterministic in its arguments and the
\* HTTP responses it receives: run twice with identical catalog,
\* section-listing and ratings responses it returns Course records equal in
\* every field except lastDataMarker, whatever the dates of the two runs and
\* whatever calls were made in between.
C18_SameResponsesSameCourse ==
    SameCall => EqualButMarker(result, earlier.result)

\* C18, amended: run twice with identical responses, at dates for which
\* getTermCodesSurroundingCurrentDate gives the same term codes, searchCourse
\* returns Course records equal in every field except lastDataMarker,
\* whatever calls were made in between.
C18_SameResponsesSameTermsSameCourse ==
    (SameCall /\ SameTerms) => EqualButMarker(result, earlier.result)

\* two calls in different quarters of one term window and at different hours
\* gave courses with sections and professors and different markers
C18_Witness ==
    /\ SameCall
    /\ SameTerms
    /\ result # NULL
    /\ args.quarter # earlier.args.quarter
    /\ result.lastDataMarker # earlier.result.lastDataMarker
    /\ result.sections # << >>
    /\ result.professors # << >>

\* C19: during one searchCourse call at most one HTTP request is outstanding
\* at any time: each catalog, section-listing and ratings request is issued
\* only after the previous request of that call has completed, with no
\* parallel fan-out over term codes, sections or professors.
C19_OneRequestAtATime ==
    op = "searchCourse"
        => /\ outstanding \in {0, 1}
           /\ Len(requests) = Len(answers) + outstanding
           /\ outstanding = 1 <=> pc \in {"catalog", "sections", "ratings"}

\* the call awaits the ratings of a professor of its second term, every
\* earlier request answered
C19_Witness ==
    /\ op = "searchCourse"
    /\ pc = "ratings"
    /\ outstanding = 1
    /\ Cardinality(RequestsOf({"sections"})) = 2
    /\ Cardinality(RequestsOf({"ratings"})) > 2
    /\ Len(answers) = Len(requests) - 1

\* C20: no exported operation mutates module-level state: successive or
\* interleaved calls of searchCourse, searchProfessors and searchRMP share
\* only read-only constants, so the result of a call never depends on which
\* other calls ran before or during it.  For searchProfessors(name, false):
\* the call returns what it returns in a module that was just loaded.
C20_ResultIndependentOfEarlierCalls ==
    (op = "searchProfessors" /\ pc = "done" /\ ~args.deep)
        => /\ outcome = "returned"
           /\ result = searchProfessorsEntry(args.name, FALSE, 0).value

\* C21: isCampusType(input) returns true exactly when input, lower-cased, is
\* a member of the CampusType type: 'any', 'kent', 'east_liverpool',
\* 'trumbull', 'tuscarawas', 'stark', 'geauga', 'ashtabula' or 'salem'.
C21_IsCampusTypeExact ==
    (op = "isCampusType" /\ pc = "done")
        => /\ outcome = "returned"
           /\ result.value <=> (toLowerCase(args.campus) \in CampusType)

\* the name has an entry in the professor mappings
InProfessorMappings(name) ==
    \E i \in DOMAIN ProfessorMappings : ProfessorMappings[i].name = name

\* the name pattern matches somewhere in the name
NameShaped(name) == \E p \in 1..Len(name) : nameMatchAt(name, p) # << >>

\* C22: searchProfessors(name) returns null only when the name has no entry
\* in the professor mappings or is not of name shape; for a name present in
\* the mappings it returns a professor record on every call, including
\* repeated calls with the same name, and when the directory request fails
\* it returns the mapping entry instead of throwing.
C22_ProfessorFoundOnEveryCall ==
    (op = "searchProfessors" /\ pc = "done")
        => /\ (outcome = "returned" /\ result = NULL)
                 => (~InProfessorMappings(args.name) \/ ~NameShaped(args.name))
           /\ (InProfessorMappings(args.name) /\ NameShaped(args.name))
                 => /\ outcome = "returned"
                    /\ result # NULL
                    /\ result.kind = "professor"
           /\ failed # {}
                 => /\ outcome = "returned"
                    /\ result = FindProfessor(args.name)

\* the lines of a catalog page's class data
PageLines(page) == splitNewlines(page.ntdefault)

\* the description line holds the ' Prerequisite: ' marker
OnMarkerPath(page) == includes(PageLines(page)[2], SEP_PREREQ)

\* the prerequisite text of a catalog page: what follows the marker in the
\* description line, or else the next line without its label
ExtractedPrereqs(page) ==
    LET lines == PageLines(page)
    IN  IF OnMarkerPath(page)
        THEN Drop(lines[2], IndexFrom(lines[2], SEP_PREREQ, 1) + Len(SEP_PREREQ) - 1)
        ELSE IF IndexFrom(lines[3], PREREQ_LABEL, 1) = 1
             THEN Drop(lines[3], Len(PREREQ_LABEL))
             ELSE lines[3]

\* C23: the prereqs field of a course built by searchCourse from the live
\* catalog is the fixed default sentence whenever the extracted prerequisite
\* text contains the substring 'None.' and whenever the extracted
\* prerequisite text is the empty string, on both the 'Prerequisite:' marker
\* path and the positional-offset fallback path.
C23_PrereqsDefault ==
    (CourseReturned /\ answers[1].kind = "page")
        => LET text == ExtractedPrereqs(answers[1])
           IN  (includes(text, NONE_DOT) \/ text = << >>)
                   => result.prereqs = DEFAULT_PREREQS

\* C24: whenever generateCourseMappings overwrites courses.json and a
\* previous courses.json existed, the previous contents were copied to a
\* timestamped backup file before the overwrite: courses.json is never
\* written before that copy has been made.
C24_BackupBeforeOverwrite ==
    [][(gen'.wrote /\ ~gen.wrote /\ disk.courses.exists)
          => [date |-> gen'.run, content |-> disk.courses] \in disk'.backups]_vars

\* a run overwrote a courses.json with other contents, and its backup holds
\* the contents of before
C24_Witness ==
    /\ gen.wrote
    /\ gen.run > 1
    /\ \E b \in disk.backups :
          /\ b.date = gen.run
          /\ b.content # disk.courses
          /\ b.content.courses # << >>

\* C29: generateCourseMappings requests every subject-page URL found on the
\* index page exactly once, in index order, before it writes courses.json;
\* no listed URL is skipped and none is requested twice.
C29_EverySubjectRequested ==
    gen.wrote => gen.requested = gen.urls

\* C27: every branch of the quarter switch in
\* getTermCodesSurroundingCurrentDate is reachable: over all dates of a year Y
\* the first returned term code takes each of the values Y10, Y50 and Y80; in
\* particular for a date in the first calendar quarter the returned list is
\* [Y10, Y50].
C27_FirstQuarterSpringSummer ==
    (op = "searchCourse" /\ pc \in {"sections", "ratings"} /\ args.quarter = 1)
        => loc.terms = << <<args.year, "10">>, <<args.year, "50">> >>

\* C28: detectRMPCampusId maps the eight campus names (Kent, East Liverpool,
\* Trumbull, Tuscarawas, Stark, Geauga, Ashtabula, Salem) to pairwise distinct
\* rating-site school identifiers, so ratings for professors of two different
\* campuses are never searched under the same school.
C28_CampusIdsDistinct ==
    (op = "detectRMPCampusId" /\ pc = "done" /\ args.campus \in CampusNames)
        => \A other \in CampusNames \ {args.campus} :
              result # Str(detectRMPCampusId(other))

\* the ratings requests of the call, by their place in the order of requests
RatingsAt == {i \in DOMAIN requests : requests[i].kind = "ratings"}

\* no two ratings requests of the call name the same professor, and none
\* names 'TBA'
OneRatingsRequestPerName ==
    /\ \A i, j \in RatingsAt : requests[i].text = requests[j].text => i = j
    /\ \A i \in RatingsAt : requests[i].text # TBA

\* C30: within one searchCourse call at most one ratings request is issued
\* per distinct professor name across all term-code passes, and for the
\* placeholder instructor 'TBA' no ratings request is issued and no professor
\* record is created.
C30_OneRatingsRequestNoTBA ==
    op = "searchCourse"
        => /\ OneRatingsRequestPerName
           /\ \A i \in DOMAIN loc.professors : loc.professors[i].name # TBA

\* the listings a call was answered with, by their place among the requests
AnsweredListings ==
    {j \in DOMAIN answers : answers[j].kind = "html" /\ requests[j].kind = "sections"}

\* the rows of dashes of a listing, and the n-th of them from the top
SeparatorsOf(table) == {r \in DOMAIN table : COURSE_SEPARATOR(table[r].c0)}
NthSeparator(table, n) ==
    CHOOSE r \in SeparatorsOf(table) :
        Cardinality({q \in SeparatorsOf(table) : q <= r}) = n

\* the sections a course holds for a term, in the order they were pushed
SectionsOfTerm(course, termCode) ==
    SelectSeq(course.sections, LAMBDA sec : sec.internal.termCode = termCode)

\* C25: for every grid whose first column holds k separator rows,
\* searchCourse produces exactly k sections for that term, the j-th read from
\* the row immediately following the j-th separator row, so each block
\* between successive separators yields exactly one section and no row is
\* used for two sections.
C25_SectionAfterEachSeparator ==
    CourseReturned
        => \A j \in AnsweredListings :
              LET table == answers[j].table
                  secs == SectionsOfTerm(result, requests[j].term_in)
              IN  /\ Len(secs) = Cardinality(SeparatorsOf(table))
                  /\ \A n \in DOMAIN secs :
                        /\ NthSeparator(table, n) + 1 \in DOMAIN table
                        /\ secs[n].internal.classNumber
                              = table[NthSeparator(table, n) + 1].c3

\* a cell of the location column that stands for a meeting place: the online
\* marker, or a building of BuildingCode with a room
Locatable(cell) ==
    \/ cell = LOC_WEB
    \/ /\ execBuilding(cell) # NULL
       /\ detectBuildingCodeByName(execBuilding(cell).name) # UNDEFINED

\* the location such a cell stands for
LocationFor(cell) ==
    IF cell = LOC_WEB THEN [name |-> ONLINE, url |-> CANVAS_URL]
    ELSE [name |-> detectBuildingCodeByName(execBuilding(cell).name)
                       \o <<" ">> \o execBuilding(cell).room]

\* how many rows from row r on, one after the other, stand for a meeting place
RunFrom(table, r) ==
    CHOOSE n \in 0..(Len(table) - r + 1) :
        /\ \A i \in r..(r + n - 1) : Locatable(table[i].c15)
        /\ r + n \in DOMAIN table => ~Locatable(table[r + n].c15)

\* the first rows of a section record in the listings of its term
FirstRowsOf(sec) ==
    {<<j, r>> \in AnsweredListings \X (1..12) :
        /\ requests[j].term_in = sec.internal.termCode
        /\ r \in DOMAIN answers[j].table
        /\ ~COURSE_SEPARATOR(answers[j].table[r].c0)
        /\ answers[j].table[r].c3 = sec.internal.classNumber
        /\ sec.internal.classNumber # << >>}

\* C26: for each section, the location scan over the location column starts
\* at the section's first row and always terminates: a 'Web COURSE' row adds
\* the Online location with its fixed URL and the scan continues, a row
\* matching building-name plus room number with a known building adds
\* '<code> <room>', and the scan stops at the first row that is neither, or
\* at the end of the column, adding at most one location per grid row.
C26_LocationScan ==
    CourseReturned
        => \A k \in DOMAIN result.sections :
              LET sec == result.sections[k]
              IN  /\ FirstRowsOf(sec) # {}
                  /\ \A at \in FirstRowsOf(sec) :
                        LET table == answers[at[1]].table
                            n == RunFrom(table, at[2])
                        IN  /\ Len(sec.location) = n
                            /\ \A i \in 1..n :
                                  sec.location[i]
                                      = LocationFor(table[at[2] + i - 1].c15)

\* a course came back with a section of a building, the online marker and a
\* second building, one whose scan stopped at a row of no known building with
\* a known one below it, and one whose scan ran to the end of the column
C26_Witness ==
    /\ CourseReturned
    /\ \E a, b, c \in DOMAIN result.sections :
          /\ Len(result.sections[a].location) = 3
          /\ result.sections[a].location[2] = [name |-> ONLINE, url |-> CANVAS_URL]
          /\ result.sections[a].location[3].name = <<"L","I","B"," ","0","0","1","2","E">>
          /\ result.sections[b].internal.classNumber = <<"3","2">>
          /\ Len(result.sections[b].location) = 1
          /\ result.sections[c].internal.classNumber = <<"4","2">>
          /\ Len(result.sections[c].location) = 2

====
